---- MODULE Spec2Model ----
(***************************************************************************)
(* Model of the Wizard101 bot's decision engine (bot_engine.py) and of    *)
(* the refill policy of the combo executor (mana_refill.py).              *)
(*                                                                         *)
(* All engine specifications interleave the API calls start/stop/pause/    *)
(* resume/toggle_pause, made by any caller, with the steps of the main-    *)
(* loop threads that start() has spawned.                                  *)
(*                                                                         *)
(* Spec        one loop thread alive at a time (runs follow one another);  *)
(*             the game presents castable cards until MaxCasts casts.      *)
(* FairSpec    Spec with the loop threads scheduled fairly.                *)
(* RaceSpec    up to MaxThreads loop threads alive together; the screen    *)
(*             shows no castable card.                                     *)
(* RefillSpec  should_refill applied to every argument/configuration.      *)
(***************************************************************************)
EXTENDS Integers, Sequences, FiniteSets, TLC

\* ------------------------------------------------------------- bounds
MaxThreads == 2     \* loop threads alive at the same time
MaxCards  == 2      \* detections in one sample
MaxX      == 2      \* screen columns a detection can be at
MaxCasts  == 1      \* hands with a castable card the game presents
MaxIdle   == 2      \* clock ticks counted since the last action
WaitTicks == 1      \* post_cast_wait / early_detect_interval
MaxTimeout == 2     \* largest configured idle timeout (in ticks)
MaxSteps  == 2      \* steps in the combo sequence
MaxRepeat == 2      \* largest 'repeat' of a step
MaxPx     == 3      \* largest x of a candidate point
MaxPy     == 0      \* largest y of a candidate point (the hand is one row of cards)
MaxTicks  == 8      \* ticks of 10 ms that pass while the keys are polled
MaxConf   == 2      \* correlation levels at or above the threshold
MaxCand   == 3      \* candidate points in one frame
TemplateW == 4      \* width of a card template
TemplateH == 4      \* height of a card template

\* config.movement.ws_repeats
WsRepeats == 3

\* set_stick and set_trigger: the largest stick deflection and trigger value
StickMax == 32767
TriggerMax == 255
StickMin == -StickMax - 1

\* ControllerEmulator.step_duration and step_gap, in units of 10 ms
StepDuration == 5
StepGap == 1

VARIABLES
    state,              \* BotEngine.state
    mode,               \* BotEngine.mode
    movement_enabled,   \* BotEngine.movement_enabled
    stop_event,         \* BotEngine._stop_event is set
    pause_event,        \* BotEngine._pause_event is set
    thread,             \* BotEngine._thread: 0 is None, else the last thread spawned
    cycle_count,        \* BotEngine.cycle_count
    successful_casts,   \* BotEngine.successful_casts
    current_slot,       \* BotEngine._current_slot
    raised,             \* an API call raised an exception to its caller
    pc,                 \* position of every loop thread
    waiting,            \* each thread in _pause_event.wait(): "no", "blocked", "notified"
    tmode,              \* the mode a loop thread dispatched on
    cards,              \* locals enchant_cards, spell_cards, enchanted_cards: the last sample
    target,             \* local 'card' / 'enchant' / 'spell' about to be clicked
    spell0,             \* local 'spell' of the first sample (advanced, priority 2)
    count,              \* local 'elapsed' (in intervals) / movement index 'i'
    iter,               \* history: what the thread did since it last tested a loop condition
    stopAt,             \* history: where stop() found the thread in its iteration:
                        \* "blocked" in the pause-wait at its top, "enchant" between
                        \* the enchant click and the spell click, else "none"
    stopCtx,            \* history: "first" a stop() came before any start(), "active" a
                        \* stop() came in Running/Paused with a loop alive and no loop
                        \* has set Stopped since
    pool,               \* scenario: the thread slots start() can use
    hands,              \* scenario: castable cards appear while successful_casts < hands
    idle,               \* time.time() - mana_refill._last_action_time, in ticks
    cfg,                \* config.mana_refill: [enabled, timeout]; FindSpec: and images.confidence
    args,               \* RefillSpec: arguments of the should_refill call
    result,             \* RefillSpec: its result
    seq,                \* config.mana_refill_combo
    running,            \* ComboExecutor._running
    xpc,                \* position of every execute() invocation
    xi,                 \* execute: index 'i' of the step
    xr,                 \* _execute_step: index 'i' of the repetition
    xres,               \* what execute() returned: "none", "True", "False"
    xlog,               \* history: the stop checks and step effects of the invocation
    ctl,                \* ControllerEmulator.state
    polling,            \* ControllerEmulator._polling
    ppc,                \* position of the polling thread
    pnew,               \* locals new_buttons, left_x, ..., right_trigger of the polling loop
    enabled,            \* ControllerEmulator._enabled
    dev,                \* scenario: the virtual device accepts calls ("ok") or raises ("failing")
    applied,            \* history: how the last _apply_state ended: "none", "ok", "failed", "skipped"
    notified,           \* history: the state the state callback was last called with
    npc,                \* every caller inside _set_state: the state it has written, or "none"
    keys,               \* input_handler: the bound keys that are down
    now,                \* time.time(), in ticks
    last_step,          \* local last_step_time of the polling loop
    fresh,              \* history: the direction keys that went down since the last poll pass
    direct              \* history: the buttons a set_button call has set and none has cleared

vars == <<state, mode, movement_enabled, stop_event, pause_event, thread,
          cycle_count, successful_casts, current_slot, raised, pc, waiting, tmode,
          cards, target, spell0, count, iter, stopAt, stopCtx, pool,
          hands, idle, cfg, args, result, seq, running, xpc, xi, xr,
          xres, xlog, ctl, polling, ppc, pnew, enabled, dev, applied, notified, npc,
          keys, now, last_step, fresh, direct>>

shared == <<state, mode, movement_enabled, stop_event, pause_event, thread,
            cycle_count, successful_casts, current_slot, raised>>
locals == <<tmode, cards, target, spell0, count>>
rest == <<enabled, dev, applied, notified, npc, keys, now, last_step, fresh, direct>>
combo == <<seq, running, xpc, xi, xr, xres, xlog, ctl, polling, ppc, pnew, rest>>
engine == <<shared, pc, waiting, locals, iter, stopAt, stopCtx, pool, hands,
            idle, cfg, args, result>>

Threads == 1..MaxThreads

\* ------------------------------------------------------------- data
BotStates == {"STOPPED", "RUNNING", "PAUSED", "WAITING"}
BotModes  == {"SIMPLE", "ADVANCED"}
CardTypes == {"ENCHANT", "SPELL", "ENCHANTED_SPELL"}

Cards == [ty : CardTypes, x : 1..MaxX]
NoCard == [ty |-> "NONE", x |-> 0]

\* What find_cards returns: detections in ascending x.
Samples ==
    {s \in UNION {[1..n -> Cards] : n \in 0..MaxCards} :
        \A i \in 1..Len(s) : \A j \in 1..Len(s) : i < j => s[i].x < s[j].x}

OfType(all_cards, ty) == SelectSeq(all_cards, LAMBDA c : c.ty = ty)

\* _find_all_cards: the partition of one sample.
FindAllCards(all_cards) ==
    [enchant   |-> OfType(all_cards, "ENCHANT"),
     spell     |-> OfType(all_cards, "SPELL"),
     enchanted |-> OfType(all_cards, "ENCHANTED_SPELL")]

Castable(all_cards) == \E i \in 1..Len(all_cards) : all_cards[i].ty # "ENCHANT"

\* The samples the screen can show: once 'hands' hands were cast, no more
\* castable cards appear.
Screen == IF successful_casts < hands THEN Samples
          ELSE {s \in Samples : ~Castable(s)}

\* mana_detector.check_status: zero implies low.
Statuses == {[zero |-> FALSE, low |-> FALSE],
             [zero |-> FALSE, low |-> TRUE],
             [zero |-> TRUE,  low |-> TRUE]}

Configs == [enabled : BOOLEAN, timeout : 0..MaxTimeout]
DefaultConfig == [enabled |-> TRUE, timeout |-> MaxTimeout]

\* ------------------------------------------------------------- controller
\* ControllerState: the buttons are the set of the flags that are set
Neutral == [buttons |-> {}, left_trigger |-> 0, right_trigger |-> 0,
            left_stick_x |-> 0, left_stick_y |-> 0,
            right_stick_x |-> 0, right_stick_y |-> 0]

Max(a, b) == IF a >= b THEN a ELSE b
Min(a, b) == IF a <= b THEN a ELSE b

\* A set_stick that limits the deflection from above only.
ClampStickNoFloor(v) == Min(StickMax, v)

\* set_stick: max(-32768, min(32767, x))
ClampStick(v) == Max(StickMin, Min(StickMax, v))

\* set_trigger: max(0, min(255, value))
ClampTrigger(v) == Max(0, Min(TriggerMax, v))

\* set_button without its update()
WriteButton(c, button, pressed) ==
    [c EXCEPT !.buttons = IF pressed THEN @ \cup {button} ELSE @ \ {button}]

\* set_trigger without its update()
WriteTrigger(c, left, value) ==
    IF left THEN [c EXCEPT !.left_trigger = ClampTrigger(value)]
    ELSE [c EXCEPT !.right_trigger = ClampTrigger(value)]

\* set_stick without its update()
WriteStick(c, left, x, y) ==
    IF left THEN [c EXCEPT !.left_stick_x = ClampStick(x), !.left_stick_y = ClampStick(y)]
    ELSE [c EXCEPT !.right_stick_x = ClampStick(x), !.right_stick_y = ClampStick(y)]

\* ------------------------------------------------------------- combo steps
\* The callers of execute: the main loop (_check_mana, with a stop check) and
\* the thread of the combo editor's test button (without one)
Callers == {"loop", "test"}

\* The steps of a sequence: one of every kind _execute_step tells apart
StepKinds == {[action |-> "button", value |-> "A"],
              [action |-> "wait", value |-> ""],
              [action |-> "stick_forward", value |-> ""],
              [action |-> "stick_hold", value |-> "left"],
              [action |-> "stick_release", value |-> ""],
              [action |-> "trigger_hold", value |-> "right"],
              [action |-> "trigger_release", value |-> "right"]}

Steps == {[action |-> k.action, value |-> k.value, repeat |-> n] :
             k \in StepKinds, n \in 1..MaxRepeat}

Combos == UNION {[1..n -> Steps] : n \in 0..MaxSteps}

\* _execute_step: the direction of a stick_forward/back/left/right or
\* stick_hold step
Deflection(step) ==
    CASE step.action = "stick_forward" -> <<0, StickMax>>
      [] step.action = "stick_back" -> <<0, StickMin>>
      [] step.action = "stick_left" -> <<StickMin, 0>>
      [] step.action = "stick_right" -> <<StickMax, 0>>
      [] step.action = "stick_hold" /\ step.value = "left" -> <<StickMin, 0>>
      [] step.action = "stick_hold" /\ step.value = "right" -> <<StickMax, 0>>
      [] step.action = "stick_hold" /\ step.value \in {"up", "forward"} -> <<0, StickMax>>
      [] step.action = "stick_hold" /\ step.value \in {"down", "back"} -> <<0, StickMin>>
      [] OTHER -> <<0, 0>>

\* BUTTON_MAP: the names of the buttons
ButtonMap == {"A", "B", "X", "Y", "DPAD_UP", "DPAD_DOWN", "DPAD_LEFT", "DPAD_RIGHT",
              "LEFT_SHOULDER", "RIGHT_SHOULDER", "LEFT_THUMB", "RIGHT_THUMB",
              "START", "BACK", "GUIDE"}

\* A button step that presses whatever it names.
EngageUnchecked(c, step) ==
    CASE step.action = "button" -> WriteButton(c, step.value, TRUE)
      [] step.action \in {"stick_forward", "stick_back", "stick_left", "stick_right",
                          "stick_hold"} ->
            WriteStick(c, TRUE, Deflection(step)[1], Deflection(step)[2])
      [] step.action = "stick_release" -> WriteStick(c, TRUE, 0, 0)
      [] step.action = "trigger_hold" -> WriteTrigger(c, step.value = "left", TriggerMax)
      [] step.action = "trigger_release" -> WriteTrigger(c, step.value = "left", 0)
      [] OTHER -> c

\* _execute_step: what the first controller call of one repetition writes
Engage(c, step) ==
    CASE step.action = "button" ->
            IF step.value \in ButtonMap THEN WriteButton(c, step.value, TRUE) ELSE c
      [] step.action \in {"stick_forward", "stick_back", "stick_left", "stick_right",
                          "stick_hold"} ->
            WriteStick(c, TRUE, Deflection(step)[1], Deflection(step)[2])
      [] step.action = "stick_release" -> WriteStick(c, TRUE, 0, 0)
      [] step.action = "trigger_hold" -> WriteTrigger(c, step.value = "left", TriggerMax)
      [] step.action = "trigger_release" -> WriteTrigger(c, step.value = "left", 0)
      [] OTHER -> c

\* _execute_step: the kinds whose repetition ends with a second controller
\* call, and what that call writes
Releasing == {"button", "stick_forward", "stick_back", "stick_left", "stick_right"}

Release(c, step) ==
    IF step.action = "button"
    THEN IF step.value \in ButtonMap THEN WriteButton(c, step.value, FALSE) ELSE c
    ELSE WriteStick(c, TRUE, 0, 0)

\* ------------------------------------------------------------- events
Event(e, a) == [ev |-> e, arg |-> a]
Log(t, e, a) == [iter EXCEPT ![t] = Append(@, Event(e, a))]
Has(t, e) == \E i \in 1..Len(iter[t]) : iter[t][i].ev = e

\* ------------------------------------------------------------- mana_refill
\* The callers of _set_state: the loop thread and a thread calling pause or
\* resume
Setters == {"loop", "api"}

\* The direction keys of the left stick
Dirs == {"up", "down", "left", "right"}

\* step_interval of the polling loop
StepInterval == StepDuration + StepGap

\* time.time() when the program starts: more than one interval after 0
Epoch == StepInterval

\* ComboExecutor.__init__, ControllerEmulator.__init__ and the locals of the
\* polling loop
Built ==
    /\ running = FALSE
    /\ xpc = [c \in Callers |-> "idle"]
    /\ xi = [c \in Callers |-> 0]
    /\ xr = [c \in Callers |-> 0]
    /\ xres = [c \in Callers |-> "none"]
    /\ xlog = [c \in Callers |-> <<>>]
    /\ ctl = Neutral
    /\ polling = FALSE
    /\ ppc = "off"
    /\ pnew = Neutral
    /\ dev = "ok"
    /\ applied = "none"
    /\ notified = "none"
    /\ npc = [c \in Setters |-> "none"]
    /\ keys = {}
    /\ now = Epoch
    /\ last_step = [d \in Dirs |-> 0]
    /\ fresh = {}
    /\ direct = {}

Constructed ==
    /\ seq \in Combos
    /\ Built

\* The controller is connected
ComboInit ==
    /\ Constructed
    /\ enabled = TRUE

\* A should_refill whose idle test is strict: idle time equal to the timeout
\* does not yet count.
ShouldRefillStrict(c, idleTime, is_zero, is_low) ==
    IF ~c.enabled THEN FALSE
    ELSE IF is_zero THEN TRUE
    ELSE IF is_low /\ idleTime > c.timeout THEN TRUE
    ELSE FALSE

\* ComboExecutor.should_refill
ShouldRefill(c, idleTime, is_zero, is_low) ==
    IF ~c.enabled THEN FALSE
    ELSE IF is_zero THEN TRUE
    ELSE IF is_low /\ idleTime >= c.timeout THEN TRUE
    ELSE FALSE


\* ------------------------------------------------------------- initial state
\* ComboExecutor.__init__ and ControllerEmulator.__init__ where a refill is
\* taken as one step and its sequence is not looked at
ComboIdle ==
    /\ ComboInit
    /\ seq = <<>>

\* BotEngine.__init__
EngineInit ==
    /\ state = "STOPPED"
    /\ mode = "SIMPLE"
    /\ movement_enabled = TRUE
    /\ stop_event = FALSE
    /\ pause_event = TRUE
    /\ thread = 0
    /\ cycle_count = 0
    /\ successful_casts = 0
    /\ current_slot = 0
    /\ raised = FALSE
    /\ pc = [t \in Threads |-> "none"]
    /\ waiting = [t \in Threads |-> "no"]
    /\ tmode = [t \in Threads |-> "SIMPLE"]
    /\ cards = [t \in Threads |-> <<>>]
    /\ target = [t \in Threads |-> NoCard]
    /\ spell0 = [t \in Threads |-> NoCard]
    /\ count = [t \in Threads |-> 0]
    /\ iter = [t \in Threads |-> <<>>]
    /\ stopAt = [t \in Threads |-> "none"]
    /\ stopCtx = "none"

Init ==
    /\ EngineInit
    /\ ComboIdle
    /\ pool = {1}
    /\ hands = MaxCasts
    /\ idle = 0
    /\ cfg = DefaultConfig
    /\ args = [zero |-> FALSE, low |-> FALSE]
    /\ result = "none"

\* ------------------------------------------------------------- API calls
\* A _set_state whose callers pass BotState.WAITING while the engine is paused
SetStateWaiting(s) == state' = IF s = "PAUSED" THEN "WAITING" ELSE s

\* BotEngine._set_state
SetState(s) == state' = s

\* threading.Event.set on _pause_event: every thread blocked in wait() is woken
EventSet == [t \in Threads |-> IF waiting[t] = "blocked" THEN "notified" ELSE waiting[t]]

\* threading.Event.wait on _pause_event returns: the flag was set at the
\* call, or the thread blocked in the call and was woken since
Passes(t) == (waiting[t] = "no" /\ pause_event) \/ waiting[t] = "notified"

\* threading.Thread(target=self._run_loop): a slot no live thread occupies
Alive(t) == pc[t] \notin {"none", "done"}
FreeSlots == {t \in pool : ~Alive(t)}
NewThread == CHOOSE t \in FreeSlots : \A u \in FreeSlots : t <= u

\* BotEngine.start
Start(m) ==
    IF state = "RUNNING"
    THEN UNCHANGED vars
    ELSE /\ FreeSlots # {}
         /\ mode' = m
         /\ stop_event' = FALSE
         /\ pause_event' = TRUE
         /\ thread' = NewThread
         /\ pc' = [pc EXCEPT ![NewThread] = "run_loop"]
         /\ stopAt' = [t \in Threads |-> "none"]
         /\ waiting' = EventSet
         /\ UNCHANGED <<state, movement_enabled, cycle_count, successful_casts,
                        current_slot, raised, locals, iter, stopCtx, idle,
                        cfg, args, result, pool, combo, hands>>

\* A stop() that joins the thread handle without the 'if self._thread' guard:
\* before any start() the handle is None and the join raises.
StopJoinUnguarded ==
    /\ stop_event' = TRUE
    /\ pause_event' = TRUE
    /\ stopAt' = [t \in Threads |->
                     IF stopAt[t] # "none" THEN stopAt[t]
                     ELSE IF pc[t] = "wait_paused" /\ waiting[t] = "blocked" THEN "blocked"
                     ELSE IF pc[t] \in {"adv_rescan", "adv_click_spell"} THEN "enchant"
                     ELSE "none"]
    /\ stopCtx' = IF thread = 0 THEN "first"
                   ELSE IF state \in {"RUNNING", "PAUSED"}
                           /\ \E t \in Threads : Alive(t) THEN "active"
                   ELSE stopCtx
    /\ waiting' = EventSet
    /\ raised' = (raised \/ thread = 0)
    /\ UNCHANGED <<state, mode, movement_enabled, thread, cycle_count,
                   successful_casts, current_slot, pc, locals, iter,
                   idle, cfg, args, result, pool, combo, hands>>

\* BotEngine.stop
Stop ==
    /\ stop_event' = TRUE
    /\ pause_event' = TRUE
    /\ stopAt' = [t \in Threads |->
                     IF stopAt[t] # "none" THEN stopAt[t]
                     ELSE IF pc[t] = "wait_paused" /\ waiting[t] = "blocked" THEN "blocked"
                     ELSE IF pc[t] \in {"adv_rescan", "adv_click_spell"} THEN "enchant"
                     ELSE "none"]
    /\ stopCtx' = IF thread = 0 THEN "first"
                   ELSE IF state \in {"RUNNING", "PAUSED"}
                           /\ \E t \in Threads : Alive(t) THEN "active"
                   ELSE stopCtx
    /\ waiting' = EventSet
    /\ UNCHANGED <<state, mode, movement_enabled, thread, cycle_count,
                   successful_casts, current_slot, raised, pc, locals, iter,
                   idle, cfg, args, result, pool, combo, hands>>

\* BotEngine.pause
Pause ==
    /\ pause_event' = FALSE
    /\ SetState("PAUSED")
    /\ UNCHANGED <<waiting, mode, movement_enabled, stop_event, thread, cycle_count,
                   successful_casts, current_slot, raised, pc, locals, iter,
                   stopAt, stopCtx, idle, cfg, args, result, pool, combo, hands>>

\* BotEngine.resume
Resume ==
    /\ pause_event' = TRUE
    /\ waiting' = EventSet
    /\ SetState("RUNNING")
    /\ UNCHANGED <<mode, movement_enabled, stop_event, thread, cycle_count,
                   successful_casts, current_slot, raised, pc, locals, iter,
                   stopAt, stopCtx, idle, cfg, args, result, pool, combo, hands>>

\* BotEngine.toggle_pause
TogglePause ==
    IF state = "PAUSED" THEN Resume
    ELSE IF state = "RUNNING" THEN Pause
    ELSE UNCHANGED vars

\* time passing between two readings of time.time()
Tick ==
    /\ idle < MaxIdle
    /\ idle' = idle + 1
    /\ UNCHANGED <<waiting, shared, pc, locals, iter, stopAt, stopCtx, cfg, args, result, pool, combo, hands>>


\* ------------------------------------------------------------- the main loop
\* the thread moves on to the next statement; it is no longer in a wait()
Goto(t, l) ==
    /\ pc' = [pc EXCEPT ![t] = l]
    /\ waiting' = [waiting EXCEPT ![t] = "no"]

\* _run_loop, up to the try block
RunLoopInit(t) ==
    /\ pc[t] = "run_loop"
    /\ SetState("RUNNING")
    /\ cycle_count' = 0
    /\ current_slot' = 0
    /\ Goto(t, "outer")
    /\ UNCHANGED <<mode, movement_enabled, stop_event, pause_event, thread,
                   successful_casts, raised, locals, iter, stopAt,
                   stopCtx, idle, cfg, args, result, pool, combo, hands>>

\* _run_loop: 'while not self._is_stopped()', the cycle counter and the dispatch on the mode
Outer(t) ==
    /\ pc[t] = "outer"
    /\ IF stop_event
       THEN /\ Goto(t, "exit")
            /\ UNCHANGED <<cycle_count, tmode>>
       ELSE /\ cycle_count' = cycle_count + 1
            /\ tmode' = [tmode EXCEPT ![t] = mode]
            /\ Goto(t, "head")
    /\ stopCtx' = IF stopCtx = "first" THEN "none" ELSE stopCtx
    /\ UNCHANGED <<state, mode, movement_enabled, stop_event, pause_event, thread,
                   successful_casts, current_slot, raised, cards, target, spell0,
                   count, iter, stopAt, idle, cfg, args, result, pool, combo, hands>>

\* A _run_loop without its try block: the thread ends where the exception is.
ExitPropagates(t) ==
    /\ pc[t] = "exit"
    /\ Goto(t, "done")
    /\ stopCtx' = "none"
    /\ UNCHANGED <<state, mode, movement_enabled, stop_event, pause_event, thread,
                   cycle_count, successful_casts, current_slot, raised, locals,
                   iter, stopAt, idle, cfg, args, result, pool, combo, hands>>

\* _run_loop: after the try block
Exit(t) ==
    /\ pc[t] = "exit"
    /\ SetState("STOPPED")
    /\ Goto(t, "done")
    /\ stopCtx' = "none"
    /\ UNCHANGED <<mode, movement_enabled, stop_event, pause_event, thread,
                   cycle_count, successful_casts, current_slot, raised, locals,
                   iter, stopAt, idle, cfg, args, result, pool, combo, hands>>

\* _run_simple_mode / _run_advanced_mode: 'while not self._is_stopped()'
ModeLoop(t) ==
    /\ pc[t] = "head"
    /\ IF stop_event
       THEN Goto(t, "outer")
       ELSE Goto(t, "wait_paused")
    /\ iter' = [iter EXCEPT ![t] = <<>>]
    /\ stopAt' = [stopAt EXCEPT ![t] = "none"]
    /\ cards' = [cards EXCEPT ![t] = <<>>]
    /\ target' = [target EXCEPT ![t] = NoCard]
    /\ spell0' = [spell0 EXCEPT ![t] = NoCard]
    /\ count' = [count EXCEPT ![t] = 0]
    /\ UNCHANGED <<shared, tmode, stopCtx, idle, cfg, args, result, pool, combo, hands>>

\* _wait_while_paused at the top of an iteration
WaitPaused(t) ==
    /\ pc[t] = "wait_paused"
    /\ Passes(t)
    /\ Goto(t, "check_mana")
    /\ UNCHANGED <<shared, locals, iter, stopAt, stopCtx, idle, cfg, args, result, pool, combo, hands>>

\* _check_mana: the status check, the refill decision and, in
\* mana_refill.execute, the stop check made before the first step
CheckMana(t) ==
    /\ pc[t] = "check_mana"
    /\ \E st \in Statuses :
          IF ShouldRefill(cfg, idle, st.zero, st.low) /\ ~stop_event
          THEN /\ iter' = Log(t, "refill", <<>>)
               /\ Goto(t, "refill")
          ELSE /\ Goto(t, "still_there")
               /\ UNCHANGED iter
    /\ UNCHANGED <<shared, locals, stopAt, stopCtx, idle, cfg, args, result, pool, combo, hands>>

\* mana_refill.execute(stop_check=self._is_stopped), from its first step on:
\* a stop seen before a later step aborts it, else it runs to its end and
\* restarts the idle timer
Execute(t) ==
    /\ pc[t] = "refill"
    /\ idle' = IF stop_event THEN idle ELSE 0
    /\ Goto(t, "still_there")
    /\ UNCHANGED <<shared, locals, iter, stopAt, stopCtx, cfg, args, result, pool, combo, hands>>

\* _check_still_there with _handle_still_there: what the iteration records
PromptLog(t, visible, found) ==
    IF ~visible THEN iter
    ELSE IF found THEN [iter EXCEPT ![t] = Append(@, Event("prompt_click", <<>>))]
    ELSE [iter EXCEPT ![t] = Append(@, Event("prompt", <<>>))]

\* A handler that connects the controller whether it was connected or not.
HandleStillThereConnects(visible) ==
    IF visible
    THEN /\ polling' = IF enabled THEN FALSE ELSE polling
         /\ enabled' = (dev = "ok")
         /\ ctl' = IF dev = "ok" THEN Neutral ELSE ctl
         /\ applied' = IF dev = "ok" THEN "ok" ELSE "none"
    ELSE UNCHANGED <<polling, enabled, ctl, applied>>

\* _handle_still_there: 'was_enabled = controller.is_enabled', and with it
\* controller.disconnect() before and controller.connect() after the click
HandleStillThere(visible) ==
    IF visible /\ enabled
    THEN /\ polling' = FALSE
         /\ enabled' = (dev = "ok")
         /\ ctl' = IF dev = "ok" THEN Neutral ELSE ctl
         /\ applied' = IF dev = "ok" THEN "ok" ELSE "none"
    ELSE UNCHANGED <<polling, enabled, ctl, applied>>

\* What _check_still_there leaves alone
prompt_frame == <<shared, locals, stopAt, stopCtx, idle, cfg, args, result, pool, hands,
                  seq, running, xpc, xi, xr, xres, xlog, ppc, pnew, dev, notified,
                  npc, keys, now, last_step, fresh, direct>>

CheckStillThere(t) ==
    /\ pc[t] = "still_there"
    /\ \E visible \in BOOLEAN, found \in BOOLEAN :
          /\ visible \/ ~found
          /\ iter' = PromptLog(t, visible, found)
          /\ HandleStillThere(visible)
          /\ Goto(t, IF visible THEN "head" ELSE "sample")
    /\ UNCHANGED prompt_frame

\* A simple mode that tries the spell cards before the enchanted ones.
SimpleChoiceSpellFirst(p) == p.spell \o p.enchanted

\* _run_simple_mode: the choice of the card to cast
SimpleChoice(p) == p.enchanted \o p.spell

\* An advanced mode that tries the direct cast of a spell card first.
AdvancedPrioritySpellFirst(p) ==
    IF p.spell # <<>> /\ p.enchant = <<>> THEN 3
    ELSE IF p.enchanted # <<>> THEN 1
    ELSE IF p.enchant # <<>> /\ p.spell # <<>> THEN 2
    ELSE 0

\* _run_advanced_mode: which priority applies to a partition
AdvancedPriority(p) ==
    IF p.enchanted # <<>> THEN 1
    ELSE IF p.enchant # <<>> /\ p.spell # <<>> THEN 2
    ELSE IF p.spell # <<>> /\ p.enchant = <<>> THEN 3
    ELSE 0

\* _run_simple_mode: sample, partition, choose
SampleSimple(t) ==
    /\ pc[t] = "sample"
    /\ tmode[t] = "SIMPLE"
    /\ \E s \in Screen :
          LET cards_to_cast == SimpleChoice(FindAllCards(s)) IN
          /\ iter' = Log(t, "sample", <<>>)
          /\ IF cards_to_cast # <<>>
             THEN /\ current_slot' = 0
                  /\ cards' = [cards EXCEPT ![t] = s]
                  /\ target' = [target EXCEPT ![t] = cards_to_cast[1]]
                  /\ Goto(t, "click")
             ELSE /\ Goto(t, "head")
                  /\ UNCHANGED <<current_slot, cards, target>>
    /\ UNCHANGED <<state, mode, movement_enabled, stop_event, pause_event, thread,
                   cycle_count, successful_casts, raised, tmode, spell0, count,
                   stopAt, stopCtx, idle, cfg, args, result, pool, combo, hands>>

\* An advanced mode whose direct cast takes the last spell card of the sample.
AdvancedTargetLastSpell(p) ==
    CASE AdvancedPriority(p) = 1 -> p.enchanted[1]
      [] AdvancedPriority(p) = 2 -> p.enchant[1]
      [] AdvancedPriority(p) = 3 -> p.spell[Len(p.spell)]
      [] OTHER -> NoCard

\* _run_advanced_mode: 'card = enchanted_cards[0]', 'enchant = enchant_cards[0]',
\* 'card = spell_cards[0]'
AdvancedTarget(p) ==
    CASE AdvancedPriority(p) = 1 -> p.enchanted[1]
      [] AdvancedPriority(p) = 2 -> p.enchant[1]
      [] AdvancedPriority(p) = 3 -> p.spell[1]
      [] OTHER -> NoCard

\* _run_advanced_mode: sample, partition, choose
SampleAdvanced(t) ==
    /\ pc[t] = "sample"
    /\ tmode[t] = "ADVANCED"
    /\ \E s \in Screen :
          LET p == FindAllCards(s)
              prio == AdvancedPriority(p) IN
          /\ iter' = Log(t, "sample", <<>>)
          /\ cards' = [cards EXCEPT ![t] = s]
          /\ target' = [target EXCEPT ![t] = AdvancedTarget(p)]
          /\ spell0' = [spell0 EXCEPT ![t] = IF prio = 2 THEN p.spell[1] ELSE NoCard]
          /\ Goto(t, CASE prio = 2 -> "adv_click_enchant"
                       [] prio \in {1, 3} -> "click"
                       [] OTHER -> "head")
    /\ UNCHANGED <<shared, tmode, count, stopAt, stopCtx, idle, cfg, args, result, pool, combo, hands>>

\* _click_card_by_position of the card to cast
Click(t) ==
    /\ pc[t] = "click"
    /\ iter' = Log(t, "click", <<target[t]>>)
    /\ Goto(t, "confirm")
    /\ UNCHANGED <<shared, locals, stopAt, stopCtx, idle, cfg, args, result, pool, combo, hands>>

\* _press_key: the key is injected unless stop was requested
PressKey(t, key) ==
    IF stop_event THEN iter ELSE Log(t, key, <<>>)

\* _confirm_cast, then the cast counter and mana_refill.update_action_time
Confirm(t) ==
    /\ pc[t] = "confirm"
    /\ Passes(t)
    /\ iter' = PressKey(t, "key_confirm")
    /\ successful_casts' = successful_casts + 1
    /\ idle' = 0
    /\ count' = [count EXCEPT ![t] = 0]
    /\ cards' = [cards EXCEPT ![t] = <<>>]
    /\ target' = [target EXCEPT ![t] = NoCard]
    /\ Goto(t, "wait_detect")
    /\ UNCHANGED <<state, mode, movement_enabled, stop_event, pause_event, thread,
                   cycle_count, current_slot, raised, tmode, spell0,
                   stopAt, stopCtx, cfg, args, result, pool, combo, hands>>

\* _wait_with_detection: the loop condition and the stop check
WaitWithDetection(t) ==
    /\ pc[t] = "wait_detect"
    /\ IF count[t] >= WaitTicks
       THEN /\ Goto(t, "movement")
            /\ count' = [count EXCEPT ![t] = 0]
       ELSE /\ Goto(t, IF stop_event THEN "outer" ELSE "wd_paused")
            /\ UNCHANGED count
    /\ iter' = [iter EXCEPT ![t] = <<>>]
    /\ UNCHANGED <<shared, tmode, cards, target, spell0, stopAt, stopCtx,
                   idle, cfg, args, result, pool, combo, hands>>

\* _wait_with_detection: pause-wait, prompt check, sample, sleep
WaitDetectSample(t) ==
    /\ pc[t] = "wd_paused"
    /\ Passes(t)
    /\ \E visible \in BOOLEAN, found \in BOOLEAN, s \in Screen :
          LET p == FindAllCards(s) IN
          /\ visible \/ ~found
          /\ iter' = [iter EXCEPT ![t] =
                         Append(PromptLog(t, visible, found)[t], Event("sample", <<>>))]
          /\ HandleStillThere(visible)
          /\ IF p.spell # <<>> \/ p.enchanted # <<>>
             THEN Goto(t, "head") /\ UNCHANGED count
             ELSE Goto(t, "wait_detect") /\ count' = [count EXCEPT ![t] = @ + 1]
    /\ UNCHANGED <<shared, tmode, cards, target, spell0, stopAt, stopCtx,
                   idle, cfg, args, result, pool, hands,
                   seq, running, xpc, xi, xr, xres, xlog, ppc, pnew, dev, notified,
                   npc, keys, now, last_step, fresh, direct>>

\* _do_movement: the enabled check, the loop condition and the stop check
DoMovement(t) ==
    /\ pc[t] = "movement"
    /\ Goto(t, IF movement_enabled /\ count[t] < WsRepeats /\ ~stop_event
               THEN "mv_paused" ELSE "head")
    /\ iter' = [iter EXCEPT ![t] = <<>>]
    /\ UNCHANGED <<shared, locals, stopAt, stopCtx, idle, cfg, args, result, pool, combo, hands>>

\* _do_movement: pause-wait, sample, the W and S pulses
MovementPulse(t) ==
    /\ pc[t] = "mv_paused"
    /\ Passes(t)
    /\ \E s \in Screen :
          IF s # <<>>
          THEN /\ iter' = Log(t, "sample", <<>>)
               /\ Goto(t, "head")
               /\ UNCHANGED count
          ELSE /\ iter' = [iter EXCEPT ![t] =
                              @ \o <<Event("sample", <<>>), Event("key_w", <<>>),
                                     Event("key_s", <<>>)>>]
               /\ Goto(t, "movement")
               /\ count' = [count EXCEPT ![t] = @ + 1]
    /\ UNCHANGED <<shared, tmode, cards, target, spell0, stopAt, stopCtx,
                   idle, cfg, args, result, pool, combo, hands>>

\* _run_advanced_mode, priority 2, step 1: click the enchant card
ClickEnchant(t) ==
    /\ pc[t] = "adv_click_enchant"
    /\ iter' = Log(t, "click", <<target[t]>>)
    /\ Goto(t, "adv_rescan")
    /\ UNCHANGED <<shared, locals, stopAt, stopCtx, idle, cfg, args, result, pool, combo, hands>>

\* An enchant sequence that clicks the spell where the first sample saw it.
RescanTargetStale(new_spell_cards, spell) == spell

\* _run_advanced_mode, priority 2: 'spell = new_spell_cards[0]'
RescanTarget(new_spell_cards, spell) == new_spell_cards[1]

\* _run_advanced_mode, priority 2, step 2: re-scan for the spell card
Rescan(t) ==
    /\ pc[t] = "adv_rescan"
    /\ \E s \in Screen :
          LET new_spell_cards == FindAllCards(s).spell IN
          /\ iter' = Log(t, "sample", <<>>)
          /\ cards' = [cards EXCEPT ![t] = s]
          /\ IF new_spell_cards # <<>>
             THEN /\ target' = [target EXCEPT ![t] =
                                  RescanTarget(new_spell_cards, spell0[t])]
                  /\ Goto(t, "adv_click_spell")
             ELSE /\ target' = [target EXCEPT ![t] = NoCard]
                  /\ Goto(t, "adv_escape")
    /\ UNCHANGED <<shared, tmode, spell0, count, stopAt, stopCtx, idle,
                   cfg, args, result, pool, combo, hands>>

\* An enchant step that confirms the spell it has clicked, as a cast does.
ClickSpellConfirms(t) ==
    /\ pc[t] = "adv_click_spell"
    /\ iter' = Log(t, "click", <<target[t]>>)
    /\ Goto(t, "confirm")
    /\ UNCHANGED <<shared, locals, stopAt, stopCtx, idle, cfg, args, result, pool, combo, hands>>

\* _run_advanced_mode, priority 2, step 3: click the spell card
ClickSpell(t) ==
    /\ pc[t] = "adv_click_spell"
    /\ iter' = Log(t, "click", <<target[t]>>)
    /\ Goto(t, "head")
    /\ UNCHANGED <<shared, locals, stopAt, stopCtx, idle, cfg, args, result, pool, combo, hands>>

\* _run_advanced_mode, priority 2: self._press_key('escape')
Escape(t) ==
    /\ pc[t] = "adv_escape"
    /\ Passes(t)
    /\ iter' = PressKey(t, "key_escape")
    /\ Goto(t, "head")
    /\ UNCHANGED <<shared, locals, stopAt, stopCtx, idle, cfg, args, result, pool, combo, hands>>

\* the places where the loop calls _wait_while_paused
PauseWaits == {"wait_paused", "confirm", "wd_paused", "mv_paused", "adv_escape"}

\* _wait_while_paused: _pause_event.wait() finds the flag clear and blocks
Block(t) ==
    /\ pc[t] \in PauseWaits
    /\ waiting[t] = "no"
    /\ ~pause_event
    /\ waiting' = [waiting EXCEPT ![t] = "blocked"]
    /\ UNCHANGED <<shared, pc, locals, iter, stopAt, stopCtx, idle, cfg, args,
                   result, pool, combo, hands>>

LoopStep(t) ==
    \/ Block(t)
    \/ RunLoopInit(t) \/ Outer(t) \/ Exit(t) \/ ModeLoop(t) \/ WaitPaused(t)
    \/ CheckMana(t) \/ Execute(t) \/ CheckStillThere(t)
    \/ SampleSimple(t) \/ SampleAdvanced(t) \/ Click(t) \/ Confirm(t)
    \/ WaitWithDetection(t) \/ WaitDetectSample(t)
    \/ DoMovement(t) \/ MovementPulse(t)
    \/ ClickEnchant(t) \/ Rescan(t) \/ ClickSpell(t) \/ Escape(t)

Next ==
    \/ \E m \in BotModes : Start(m)
    \/ Stop
    \/ Pause
    \/ Resume
    \/ TogglePause
    \/ Tick
    \/ \E t \in Threads : LoopStep(t)

Spec == Init /\ [][Next]_vars

\* The loop threads are scheduled: a thread that can take a step again and
\* again takes one.
FairSpec == Spec /\ \A t \in Threads : SF_vars(LoopStep(t))

\* The statements inside the try block of _run_loop
InTry(t) == Alive(t) /\ pc[t] \notin {"run_loop", "exit"}

\* _run_loop: a statement of the loop body raises an exception; the frames of
\* the mode function are unwound, their locals with them, 'except Exception'
\* catches it and the thread goes on after the try block
Fail(t) ==
    /\ InTry(t)
    /\ waiting[t] # "blocked"
    /\ iter' = [iter EXCEPT ![t] = <<Event("fail", <<>>)>>]
    /\ cards' = [cards EXCEPT ![t] = <<>>]
    /\ target' = [target EXCEPT ![t] = NoCard]
    /\ spell0' = [spell0 EXCEPT ![t] = NoCard]
    /\ count' = [count EXCEPT ![t] = 0]
    /\ Goto(t, "exit")
    /\ UNCHANGED <<shared, tmode, stopAt, stopCtx, idle, cfg, args, result, pool,
                   combo, hands>>

FailNext ==
    \/ Next
    \/ \E t \in Threads : Fail(t)

FailSpec == Init /\ [][FailNext]_vars

\* ------------------------------------------------------------- _set_state
\* _set_state is two statements, the write of self.state and the call of the
\* state callback; the loop thread and the thread calling pause/resume run
\* them unsynchronised. NotifySpec takes them one at a time.
quiet == <<seq, running, xpc, xi, xr, xres, xlog, ctl, polling, ppc, pnew,
           enabled, dev, applied, keys, now, last_step, fresh, direct>>

\* _set_state: 'self.state = state', by caller c
WriteState(c, s) ==
    /\ npc[c] = "none"
    /\ state' = s
    /\ npc' = [npc EXCEPT ![c] = s]

\* _set_state: 'self._state_callback(state)', by caller c
Callback(c) ==
    /\ npc[c] # "none"
    /\ notified' = npc[c]
    /\ npc' = [npc EXCEPT ![c] = "none"]

\* _run_loop: the write of _set_state(RUNNING)
RunLoopWrite(t) ==
    /\ pc[t] = "run_loop"
    /\ WriteState("loop", "RUNNING")
    /\ Goto(t, "run_loop_cb")
    /\ UNCHANGED <<mode, movement_enabled, stop_event, pause_event, thread,
                   cycle_count, successful_casts, current_slot, raised, locals,
                   iter, stopAt, stopCtx, idle, cfg, args, result, pool, hands,
                   quiet, notified>>

\* _run_loop: the callback of _set_state(RUNNING), and on to the try block
RunLoopNotify(t) ==
    /\ pc[t] = "run_loop_cb"
    /\ Callback("loop")
    /\ cycle_count' = 0
    /\ current_slot' = 0
    /\ Goto(t, "outer")
    /\ UNCHANGED <<state, mode, movement_enabled, stop_event, pause_event, thread,
                   successful_casts, raised, locals, iter, stopAt, stopCtx, idle,
                   cfg, args, result, pool, hands, quiet>>

\* _run_loop: the write of _set_state(STOPPED) after the try block
ExitWrite(t) ==
    /\ pc[t] = "exit"
    /\ WriteState("loop", "STOPPED")
    /\ Goto(t, "exit_cb")
    /\ UNCHANGED <<mode, movement_enabled, stop_event, pause_event, thread,
                   cycle_count, successful_casts, current_slot, raised, locals,
                   iter, stopAt, stopCtx, idle, cfg, args, result, pool, hands,
                   quiet, notified>>

\* _run_loop: the callback of _set_state(STOPPED); the thread ends
ExitNotify(t) ==
    /\ pc[t] = "exit_cb"
    /\ Callback("loop")
    /\ Goto(t, "done")
    /\ stopCtx' = "none"
    /\ UNCHANGED <<state, mode, movement_enabled, stop_event, pause_event, thread,
                   cycle_count, successful_casts, current_slot, raised, locals,
                   iter, stopAt, idle, cfg, args, result, pool, hands, quiet>>

\* BotEngine.pause, up to the write of _set_state(PAUSED)
PauseWrite ==
    /\ pause_event' = FALSE
    /\ WriteState("api", "PAUSED")
    /\ UNCHANGED <<waiting, mode, movement_enabled, stop_event, thread, cycle_count,
                   successful_casts, current_slot, raised, pc, locals, iter,
                   stopAt, stopCtx, idle, cfg, args, result, pool, hands, quiet,
                   notified>>

\* BotEngine.resume, up to the write of _set_state(RUNNING)
ResumeWrite ==
    /\ pause_event' = TRUE
    /\ waiting' = EventSet
    /\ WriteState("api", "RUNNING")
    /\ UNCHANGED <<mode, movement_enabled, stop_event, thread, cycle_count,
                   successful_casts, current_slot, raised, pc, locals, iter,
                   stopAt, stopCtx, idle, cfg, args, result, pool, hands, quiet,
                   notified>>

\* BotEngine.pause / resume: the callback of their _set_state
ApiNotify ==
    /\ Callback("api")
    /\ UNCHANGED <<engine, quiet>>

\* The statements of the loop between the two _set_state calls; with no
\* castable card on the screen the thread never gets past its sample.
NotifyLoopStep(t) ==
    \/ Block(t)
    \/ RunLoopWrite(t) \/ RunLoopNotify(t) \/ ExitWrite(t) \/ ExitNotify(t)
    \/ Outer(t) \/ ModeLoop(t) \/ WaitPaused(t)
    \/ CheckMana(t) \/ Execute(t) \/ CheckStillThere(t)
    \/ SampleSimple(t) \/ SampleAdvanced(t)

NotifyInit ==
    /\ EngineInit
    /\ ComboIdle
    /\ pool = {1}
    /\ hands = 0
    /\ idle = 0
    /\ cfg = DefaultConfig
    /\ args = [zero |-> FALSE, low |-> FALSE]
    /\ result = "none"

\* One thread makes the API calls: it makes no call while it is in a callback.
NotifyNext ==
    \/ npc["api"] = "none" /\ \E m \in BotModes : Start(m)
    \/ npc["api"] = "none" /\ Stop
    \/ PauseWrite
    \/ ResumeWrite
    \/ ApiNotify
    \/ \E t \in Threads : NotifyLoopStep(t)

NotifySpec == NotifyInit /\ [][NotifyNext]_vars

\* should_refill called with any arguments, idle time and configuration
RefillInit ==
    /\ EngineInit
    /\ ComboIdle
    /\ pool = {1}
    /\ hands = MaxCasts
    /\ idle \in 0..MaxIdle
    /\ cfg \in Configs
    /\ args \in [zero : BOOLEAN, low : BOOLEAN]
    /\ result = "none"

Bool(b) == IF b THEN "True" ELSE "False"

CallShouldRefill ==
    /\ result = "none"
    /\ result' = Bool(ShouldRefill(cfg, idle, args.zero, args.low))
    /\ UNCHANGED <<shared, pc, waiting, locals, iter, stopAt, stopCtx, pool, combo,
                   hands, idle, cfg, args>>

RefillNext == CallShouldRefill

RefillSpec == RefillInit /\ [][RefillNext]_vars

RaceInit ==
    /\ EngineInit
    /\ ComboIdle
    /\ pool = Threads
    /\ hands = 0
    /\ idle = 0
    /\ cfg = DefaultConfig
    /\ args = [zero |-> FALSE, low |-> FALSE]
    /\ result = "none"

\* With no castable card on the screen a loop thread never gets past its sample.
RaceLoopStep(t) ==
    \/ Block(t)
    \/ RunLoopInit(t) \/ Outer(t) \/ Exit(t) \/ ModeLoop(t) \/ WaitPaused(t)
    \/ CheckMana(t) \/ Execute(t) \/ CheckStillThere(t)
    \/ SampleSimple(t) \/ SampleAdvanced(t)

RaceNext ==
    \/ \E m \in BotModes : Start(m)
    \/ Stop
    \/ Pause
    \/ Resume
    \/ TogglePause
    \/ Tick
    \/ \E t \in Threads : RaceLoopStep(t)

RaceSpec == RaceInit /\ [][RaceNext]_vars


\* ------------------------------------------------------------- the sequencer
XEvent(e, i, r) == [ev |-> e, i |-> i, r |-> r]
XLog(c, e) == [xlog EXCEPT ![c] = Append(@, XEvent(e, xi[c], xr[c]))]
XGoto(c, l) == xpc' = [xpc EXCEPT ![c] = l]

\* execute: 'stop_check and stop_check()'; the main loop passes _is_stopped,
\* the test thread passes nothing
StopCheck(c) == c = "loop" /\ stop_event

\* _check_mana or the test thread calls mana_refill.execute
Call(c) ==
    /\ xpc[c] \in {"idle", "done"}
    /\ XGoto(c, "guard")
    /\ xi' = [xi EXCEPT ![c] = 0]
    /\ xr' = [xr EXCEPT ![c] = 0]
    /\ xres' = [xres EXCEPT ![c] = "none"]
    /\ xlog' = [xlog EXCEPT ![c] = <<>>]
    /\ UNCHANGED <<engine, rest, seq, running, ctl, polling, ppc, pnew>>

\* An execute() whose running test is inside the try block: the rejected call
\* runs the finally block too.
GuardInsideTry(c) ==
    /\ xpc[c] = "guard"
    /\ IF running
       THEN /\ xres' = [xres EXCEPT ![c] = "False"]
            /\ XGoto(c, "finally")
       ELSE /\ XGoto(c, "set_running")
            /\ UNCHANGED xres
    /\ UNCHANGED <<engine, rest, seq, running, xi, xr, xlog, ctl, polling, ppc, pnew>>

\* execute: 'if self._running: return False'
Guard(c) ==
    /\ xpc[c] = "guard"
    /\ IF running
       THEN /\ xres' = [xres EXCEPT ![c] = "False"]
            /\ XGoto(c, "done")
       ELSE /\ XGoto(c, "set_running")
            /\ UNCHANGED xres
    /\ UNCHANGED <<engine, rest, seq, running, xi, xr, xlog, ctl, polling, ppc, pnew>>

\* execute: 'self._running = True'
SetRunning(c) ==
    /\ xpc[c] = "set_running"
    /\ running' = TRUE
    /\ xi' = [xi EXCEPT ![c] = 1]
    /\ XGoto(c, "step_check")
    /\ UNCHANGED <<engine, rest, seq, xr, xres, xlog, ctl, polling, ppc, pnew>>

\* execute: the head of 'for i, step in enumerate(combo)' and its stop check
StepCheck(c) ==
    /\ xpc[c] = "step_check"
    /\ IF xi[c] > Len(seq)
       THEN /\ XGoto(c, "complete")
            /\ UNCHANGED <<xr, xres, xlog>>
       ELSE IF StopCheck(c)
       THEN /\ xlog' = XLog(c, "abort")
            /\ xres' = [xres EXCEPT ![c] = "False"]
            /\ XGoto(c, "finally")
            /\ UNCHANGED xr
       ELSE /\ xlog' = XLog(c, "check")
            /\ xr' = [xr EXCEPT ![c] = 1]
            /\ XGoto(c, "rep_check")
            /\ UNCHANGED xres
    /\ UNCHANGED <<engine, rest, seq, running, xi, ctl, polling, ppc, pnew>>

\* A _execute_step that leaves its stop check out.
RepAbortsNever(c) == FALSE

\* _execute_step: 'if stop_check and stop_check(): return False'
RepAborts(c) == StopCheck(c)

\* _execute_step: the head of 'for i in range(repeat)' and its stop check
RepCheck(c) ==
    /\ xpc[c] = "rep_check"
    /\ IF xr[c] > seq[xi[c]].repeat
       THEN /\ xi' = [xi EXCEPT ![c] = @ + 1]
            /\ XGoto(c, "step_check")
            /\ UNCHANGED <<xres, xlog>>
       ELSE IF RepAborts(c)
       THEN /\ xlog' = XLog(c, "abort")
            /\ xres' = [xres EXCEPT ![c] = "False"]
            /\ XGoto(c, "finally")
            /\ UNCHANGED xi
       ELSE /\ xlog' = XLog(c, "check")
            /\ XGoto(c, "engage")
            /\ UNCHANGED <<xi, xres>>
    /\ UNCHANGED <<engine, rest, seq, running, xr, ctl, polling, ppc, pnew>>

\* _execute_step: the repetition starts; the state write of its first
\* controller call (a wait step sleeps and is over)
EngageStep(c) ==
    /\ xpc[c] = "engage"
    /\ xlog' = XLog(c, "effect")
    /\ ctl' = Engage(ctl, seq[xi[c]])
    /\ IF seq[xi[c]].action = "wait"
       THEN /\ xr' = [xr EXCEPT ![c] = @ + 1]
            /\ XGoto(c, "rep_check")
       ELSE /\ XGoto(c, "engage_update")
            /\ UNCHANGED xr
    /\ UNCHANGED <<engine, rest, seq, running, xi, xres, polling, ppc, pnew>>

\* _execute_step: the update() of the first controller call, and the sleep
EngageUpdate(c) ==
    /\ xpc[c] = "engage_update"
    /\ IF seq[xi[c]].action \in Releasing
       THEN /\ XGoto(c, "release")
            /\ UNCHANGED xr
       ELSE /\ xr' = [xr EXCEPT ![c] = @ + 1]
            /\ XGoto(c, "rep_check")
    /\ UNCHANGED <<engine, rest, seq, running, xi, xres, xlog, ctl, polling, ppc, pnew>>

\* _execute_step: the state write of the second controller call of a button
\* or stick_forward/back/left/right repetition
ReleaseStep(c) ==
    /\ xpc[c] = "release"
    /\ ctl' = Release(ctl, seq[xi[c]])
    /\ XGoto(c, "release_update")
    /\ UNCHANGED <<engine, rest, seq, running, xi, xr, xres, xlog, polling, ppc, pnew>>

\* _execute_step: the update() of the second controller call
ReleaseUpdate(c) ==
    /\ xpc[c] = "release_update"
    /\ xr' = [xr EXCEPT ![c] = @ + 1]
    /\ XGoto(c, "rep_check")
    /\ UNCHANGED <<engine, rest, seq, running, xi, xres, xlog, ctl, polling, ppc, pnew>>

\* execute: the sequence is complete: update_action_time, 'return True'
Complete(c) ==
    /\ xpc[c] = "complete"
    /\ idle' = 0
    /\ xres' = [xres EXCEPT ![c] = "True"]
    /\ XGoto(c, "finally")
    /\ UNCHANGED <<shared, pc, waiting, locals, iter, stopAt, stopCtx, pool, hands,
                   cfg, args, result, seq, running, xi, xr, xlog, ctl, polling,
                   ppc, pnew, rest>>

\* execute: a step raises (a duration time.sleep rejects, a repeat that is no
\* integer): 'except Exception', the error is logged, 'return False'
Raise(c) ==
    /\ xpc[c] = "engage"
    /\ xlog' = XLog(c, "error")
    /\ xres' = [xres EXCEPT ![c] = "False"]
    /\ XGoto(c, "finally")
    /\ UNCHANGED <<engine, rest, seq, running, xi, xr, ctl, polling, ppc, pnew>>

\* A finally block that resets the idle timer too.
FinallyUpdatesTime(c) ==
    /\ xpc[c] = "finally"
    /\ running' = FALSE
    /\ idle' = 0
    /\ XGoto(c, "reset")
    /\ UNCHANGED <<shared, pc, waiting, locals, iter, stopAt, stopCtx, pool, hands,
                   cfg, args, result, seq, xi, xr, xres, xlog, ctl, polling,
                   ppc, pnew, rest>>

\* execute, finally: 'self._running = False'
Finally(c) ==
    /\ xpc[c] = "finally"
    /\ running' = FALSE
    /\ XGoto(c, "reset")
    /\ UNCHANGED <<engine, rest, seq, xi, xr, xres, xlog, ctl, polling, ppc, pnew>>

\* execute, finally: controller.reset(), the state write
Reset(c) ==
    /\ xpc[c] = "reset"
    /\ ctl' = Neutral
    /\ XGoto(c, "reset_update")
    /\ UNCHANGED <<engine, rest, seq, running, xi, xr, xres, xlog, polling, ppc, pnew>>

\* execute, finally: the update() of controller.reset(); execute returns
ResetUpdate(c) ==
    /\ xpc[c] = "reset_update"
    /\ XGoto(c, "done")
    /\ UNCHANGED <<engine, rest, seq, running, xi, xr, xres, xlog, ctl, polling, ppc, pnew>>

ExecuteStep(c) ==
    \/ Call(c) \/ Guard(c) \/ SetRunning(c) \/ StepCheck(c) \/ RepCheck(c)
    \/ EngageStep(c) \/ EngageUpdate(c) \/ ReleaseStep(c) \/ ReleaseUpdate(c)
    \/ Complete(c) \/ Finally(c) \/ Reset(c) \/ ResetUpdate(c)

\* One execute() at a time, called by the main loop, and stop() called at any
\* moment.
SeqInit ==
    /\ EngineInit
    /\ ComboInit
    /\ pool = {1}
    /\ hands = MaxCasts
    /\ idle = 0
    /\ cfg = DefaultConfig
    /\ args = [zero |-> FALSE, low |-> FALSE]
    /\ result = "none"

\* stop() called while no stop is requested
StopRequest == ~stop_event /\ Stop

SeqNext ==
    \/ StopRequest
    \/ ExecuteStep("loop")

SeqSpec == SeqInit /\ [][SeqNext]_vars

\* Sequences of button and wait steps, the last action MaxIdle seconds ago,
\* and steps that raise
ErrInit ==
    /\ EngineInit
    /\ ComboInit
    /\ \A k \in 1..Len(seq) : seq[k].action \in {"button", "wait"}
    /\ pool = {1}
    /\ hands = MaxCasts
    /\ idle = MaxIdle
    /\ cfg = DefaultConfig
    /\ args = [zero |-> FALSE, low |-> FALSE]
    /\ result = "none"

ErrNext ==
    \/ SeqNext
    \/ Raise("loop")

ErrSpec == ErrInit /\ [][ErrNext]_vars

\* Steps _execute_step does not know: a kind that is none of its branches and
\* a button that is not in BUTTON_MAP; and one it knows
OddKinds == {[action |-> "jump", value |-> ""],
             [action |-> "button", value |-> "Q"],
             [action |-> "stick_hold", value |-> "left"]}

OddCombos ==
    UNION {[1..n -> {[action |-> k.action, value |-> k.value, repeat |-> r] :
                        k \in OddKinds, r \in 1..MaxRepeat}] : n \in 0..MaxSteps}

\* A sequence of such steps, executed by the main loop
OddInit ==
    /\ EngineInit
    /\ seq \in OddCombos
    /\ Built
    /\ enabled = TRUE
    /\ pool = {1}
    /\ hands = MaxCasts
    /\ idle = 0
    /\ cfg = DefaultConfig
    /\ args = [zero |-> FALSE, low |-> FALSE]
    /\ result = "none"

OddSpec == OddInit /\ [][SeqNext]_vars

\* ------------------------------------------------------------- the polling thread
\* _poll_loop_rapid_steps: what one pass computes from the keys that are down:
\* no key, the key bound to A, the mouse button bound to the right trigger, or
\* the key bound to left stick up (full deflection during a rapid step)
PollInputs ==
    {Neutral,
     [Neutral EXCEPT !.buttons = {"A"}],
     [Neutral EXCEPT !.right_trigger = TriggerMax],
     [Neutral EXCEPT !.left_stick_y = StickMax]}

\* ControllerEmulator.start_polling
StartPolling ==
    IF polling
    THEN UNCHANGED vars
    ELSE /\ ppc = "off"
         /\ polling' = TRUE
         /\ ppc' = "read"
         /\ UNCHANGED <<engine, rest, seq, running, xpc, xi, xr, xres, xlog, ctl, pnew>>

\* ControllerEmulator.stop_polling
StopPolling ==
    /\ polling' = FALSE
    /\ UNCHANGED <<engine, rest, seq, running, xpc, xi, xr, xres, xlog, ctl, ppc, pnew>>

\* _poll_loop_rapid_steps: the loop condition, then the keys are read
PollRead ==
    /\ ppc = "read"
    /\ IF polling /\ enabled
       THEN \E k \in PollInputs : pnew' = k /\ ppc' = "write_sticks"
       ELSE pnew' = Neutral /\ ppc' = "off"
    /\ UNCHANGED <<engine, rest, seq, running, xpc, xi, xr, xres, xlog, ctl, polling>>

\* _poll_loop_rapid_steps: the buttons and the sticks are written
PollWriteSticks ==
    /\ ppc = "write_sticks"
    /\ ctl' = [pnew EXCEPT !.left_trigger = ctl.left_trigger,
                           !.right_trigger = ctl.right_trigger]
    /\ ppc' = "write_triggers"
    /\ UNCHANGED <<engine, rest, seq, running, xpc, xi, xr, xres, xlog, polling, pnew>>

\* _poll_loop_rapid_steps: the triggers are written
PollWriteTriggers ==
    /\ ppc = "write_triggers"
    /\ ctl' = [ctl EXCEPT !.left_trigger = pnew.left_trigger,
                          !.right_trigger = pnew.right_trigger]
    /\ ppc' = "update"
    /\ UNCHANGED <<engine, rest, seq, running, xpc, xi, xr, xres, xlog, polling, pnew>>

\* _poll_loop_rapid_steps: self.update(), then the sleep
PollUpdate ==
    /\ ppc = "update"
    /\ ppc' = "read"
    /\ pnew' = Neutral
    /\ UNCHANGED <<engine, rest, seq, running, xpc, xi, xr, xres, xlog, ctl, polling>>

PollStep == PollRead \/ PollWriteSticks \/ PollWriteTriggers \/ PollUpdate

\* The arguments a caller can pass to set_trigger and to set_stick
TriggerArgs == {-1, TriggerMax + 1}
StickArgs == {StickMin - 1, StickMax + 1}

\* ControllerEmulator.set_trigger called by any thread
SetTrigger(left, value) ==
    /\ ctl' = WriteTrigger(ctl, left, value)
    /\ UNCHANGED <<engine, rest, seq, running, xpc, xi, xr, xres, xlog, polling, ppc, pnew>>

\* ControllerEmulator.set_stick called by any thread
SetStick(left, x, y) ==
    /\ ctl' = WriteStick(ctl, left, x, y)
    /\ UNCHANGED <<engine, rest, seq, running, xpc, xi, xr, xres, xlog, polling, ppc, pnew>>

\* The sequences of at most one step
ShortInit ==
    /\ SeqInit
    /\ Len(seq) <= 1

\* The main loop and the test thread call execute(), and stop() is called at
\* any moment.
ComboNext ==
    \/ StopRequest
    \/ \E c \in Callers : ExecuteStep(c)

ComboSpec == ShortInit /\ [][ComboNext]_vars

\* The main loop calls execute() while the polling thread runs and is started
\* and stopped, and stop() is called at any moment.
PollNext ==
    \/ StopRequest
    \/ ExecuteStep("loop")
    \/ StartPolling
    \/ StopPolling
    \/ PollStep

PollSpec == ShortInit /\ [][PollNext]_vars

\* The same, and set_trigger and set_stick are called with arguments beyond
\* the legal range.
PadNext ==
    \/ PollNext
    \/ \E value \in TriggerArgs : SetTrigger(TRUE, value)
    \/ \E x \in StickArgs : SetStick(FALSE, x, x)

PadSpec == ShortInit /\ [][PadNext]_vars


\* ------------------------------------------------------------- the virtual device
\* _apply_state: nothing is done when the controller is not enabled; an
\* exception of the device is caught and dropped
ApplyOutcome ==
    IF ~enabled THEN "skipped"
    ELSE IF dev = "ok" THEN "ok"
    ELSE "failed"

\* ControllerEmulator.connect
Connect ==
    /\ IF dev = "ok"
       THEN /\ enabled' = TRUE
            /\ ctl' = Neutral
            /\ applied' = "ok"
            /\ result' = "True"
       ELSE /\ applied' = "none"
            /\ result' = "False"
            /\ UNCHANGED <<enabled, ctl>>
    /\ UNCHANGED <<shared, pc, waiting, locals, iter, stopAt, stopCtx, pool, hands,
                   idle, cfg, args, seq, running, xpc, xi, xr, xres, xlog,
                   polling, ppc, pnew, dev, notified, npc, keys, now, last_step, fresh, direct>>

\* ControllerEmulator.disconnect
Disconnect ==
    /\ polling' = FALSE
    /\ enabled' = FALSE
    /\ applied' = "none"
    /\ result' = "None"
    /\ UNCHANGED <<shared, pc, waiting, locals, iter, stopAt, stopCtx, pool, hands,
                   idle, cfg, args, seq, running, xpc, xi, xr, xres, xlog, ctl,
                   ppc, pnew, dev, notified, npc, keys, now, last_step, fresh, direct>>

\* ControllerEmulator.update
CallUpdate ==
    /\ applied' = ApplyOutcome
    /\ result' = "None"
    /\ UNCHANGED <<shared, pc, waiting, locals, iter, stopAt, stopCtx, pool, hands,
                   idle, cfg, args, seq, running, xpc, xi, xr, xres, xlog, ctl,
                   polling, ppc, pnew, enabled, dev, notified, npc, keys, now,
                   last_step, fresh, direct>>

\* ControllerEmulator.set_button with its update()
CallSetButton(button, pressed) ==
    /\ ctl' = WriteButton(ctl, button, pressed)
    /\ applied' = ApplyOutcome
    /\ result' = "None"
    /\ direct' = IF pressed THEN direct \cup {button} ELSE direct \ {button}
    /\ UNCHANGED <<shared, pc, waiting, locals, iter, stopAt, stopCtx, pool, hands,
                   idle, cfg, args, seq, running, xpc, xi, xr, xres, xlog,
                   polling, ppc, pnew, enabled, dev, notified, npc, keys, now,
                   last_step, fresh>>

\* ControllerEmulator.set_trigger with its update()
CallSetTrigger(left, value) ==
    /\ ctl' = WriteTrigger(ctl, left, value)
    /\ applied' = ApplyOutcome
    /\ result' = "None"
    /\ UNCHANGED <<shared, pc, waiting, locals, iter, stopAt, stopCtx, pool, hands,
                   idle, cfg, args, seq, running, xpc, xi, xr, xres, xlog,
                   polling, ppc, pnew, enabled, dev, notified, npc, keys, now,
                   last_step, fresh, direct>>

\* ControllerEmulator.set_stick with its update()
CallSetStick(left, x, y) ==
    /\ ctl' = WriteStick(ctl, left, x, y)
    /\ applied' = ApplyOutcome
    /\ result' = "None"
    /\ UNCHANGED <<shared, pc, waiting, locals, iter, stopAt, stopCtx, pool, hands,
                   idle, cfg, args, seq, running, xpc, xi, xr, xres, xlog,
                   polling, ppc, pnew, enabled, dev, notified, npc, keys, now,
                   last_step, fresh, direct>>

\* The virtual device starts to raise on every call, or stops doing so
DeviceChange ==
    /\ dev' = IF dev = "ok" THEN "failing" ELSE "ok"
    /\ UNCHANGED <<engine, seq, running, xpc, xi, xr, xres, xlog, ctl, polling, ppc,
                   pnew, enabled, applied, notified, npc, keys, now, last_step, fresh, direct>>

\* The controller after construction, not connected
DeviceInit ==
    /\ EngineInit
    /\ Constructed
    /\ seq = <<>>
    /\ enabled = FALSE
    /\ pool = {1}
    /\ hands = MaxCasts
    /\ idle = 0
    /\ cfg = DefaultConfig
    /\ args = [zero |-> FALSE, low |-> FALSE]
    /\ result = "none"

DeviceNext ==
    \/ Connect
    \/ Disconnect
    \/ CallUpdate
    \/ \E pressed \in BOOLEAN : CallSetButton("A", pressed)
    \/ \E left \in BOOLEAN, value \in {0, TriggerMax} : CallSetTrigger(left, value)
    \/ \E x \in {0, StickMax} : CallSetStick(TRUE, x, 0)
    \/ DeviceChange

DeviceSpec == DeviceInit /\ [][DeviceNext]_vars

\* The controller is connected and disconnected, and its polling thread is
\* started, stopped and runs, in any order.
LinkNext ==
    \/ Connect
    \/ Disconnect
    \/ StartPolling
    \/ StopPolling
    \/ PollStep
    \/ DeviceChange

LinkSpec == DeviceInit /\ [][LinkNext]_vars

\* ------------------------------------------------------------- the prompt
\* The loop without pause(): no thread blocks in a pause-wait
PromptLoopStep(t) ==
    \/ RunLoopInit(t) \/ Outer(t) \/ Exit(t) \/ ModeLoop(t) \/ WaitPaused(t)
    \/ CheckMana(t) \/ Execute(t) \/ CheckStillThere(t)
    \/ SampleSimple(t) \/ SampleAdvanced(t) \/ Click(t) \/ Confirm(t)
    \/ WaitWithDetection(t) \/ WaitDetectSample(t)
    \/ DoMovement(t) \/ MovementPulse(t)
    \/ ClickEnchant(t) \/ Rescan(t) \/ ClickSpell(t) \/ Escape(t)

\* The controller as the user has left it: connected or not, its polling
\* thread started or not, the virtual device working or not
PromptInit ==
    /\ EngineInit
    /\ seq = <<>>
    /\ running = FALSE
    /\ xpc = [c \in Callers |-> "idle"]
    /\ xi = [c \in Callers |-> 0]
    /\ xr = [c \in Callers |-> 0]
    /\ xres = [c \in Callers |-> "none"]
    /\ xlog = [c \in Callers |-> <<>>]
    /\ ctl = Neutral
    /\ enabled \in BOOLEAN
    /\ polling \in BOOLEAN
    /\ ppc = IF polling THEN "read" ELSE "off"
    /\ pnew = Neutral
    /\ dev \in {"ok", "failing"}
    /\ applied = "none"
    /\ notified = "none"
    /\ npc = [c \in Setters |-> "none"]
    /\ keys = {}
    /\ now = Epoch
    /\ last_step = [d \in Dirs |-> 0]
    /\ fresh = {}
    /\ direct = {}
    /\ pool = {1}
    /\ hands = MaxCasts
    /\ idle = 0
    /\ cfg = DefaultConfig
    /\ args = [zero |-> FALSE, low |-> FALSE]
    /\ result = "none"

\* The main loop runs and meets the prompt.
PromptNext ==
    \/ \E m \in BotModes : Start(m)
    \/ Stop
    \/ \E t \in Threads : PromptLoopStep(t)

PromptSpec == PromptInit /\ [][PromptNext]_vars

\* ------------------------------------------------------------- rapid steps
\* config.controller: the key bound to every direction of the left stick
DirKey == [up |-> "left_stick_up", down |-> "left_stick_down",
           left |-> "left_stick_left", right |-> "left_stick_right"]

\* btn_map: the binding and the button of the pairs the scenario uses
BtnMap == {<<"button_a", "A">>, <<"button_b", "B">>}

\* input_handler.is_key_pressed of the key of a binding
IsKeyPressed(binding) == binding \in keys

\* 'for key, button in btn_map: if key and is_key_pressed(key): new_buttons |= button'
NewButtons == {m[2] : m \in {b \in BtnMap : IsKeyPressed(b[1])}}

\* 'current_time - last_step_time[d] >= step_interval'
StepStarts(d) == now - last_step[d] >= StepInterval

\* 'elif current_time - last_step_time[d] < self.step_duration'
InStep(d) == now - last_step[d] < StepDuration

\* What the block of direction d assigns to its axis: the value, or nothing (0
\* stands for no assignment, the axis keeps what it had)
Push(d, value) ==
    IF IsKeyPressed(DirKey[d]) /\ (StepStarts(d) \/ InStep(d)) THEN value ELSE 0

\* Two blocks that add their deflections up.
OverrideAdds(first, second) == first + second

\* Two blocks assign to the same axis one after the other: the later
\* assignment stands
Override(first, second) == IF second # 0 THEN second ELSE first

\* A write of the buttons that keeps the flags already set.
StoreKeeps(old, new) == old \cup new

\* 'self.state.buttons = new_buttons'
Store(old, new) == new

\* The locals of one pass: the buttons, the triggers (no trigger key is bound
\* in the scenario, no mouse button is down) and the sticks (up before down,
\* left before right; no key of the right stick is down)
PollState ==
    [buttons |-> NewButtons,
     left_trigger |-> 0,
     right_trigger |-> 0,
     left_stick_x |-> Override(Push("left", StickMin), Push("right", StickMax)),
     left_stick_y |-> Override(Push("up", StickMax), Push("down", StickMin)),
     right_stick_x |-> 0,
     right_stick_y |-> 0]

\* _poll_loop_rapid_steps: one pass of the loop, from the reading of the clock
\* to self.update()
PollPass ==
    /\ polling
    /\ enabled
    /\ pnew' = PollState
    /\ last_step' = [d \in Dirs |->
                        IF IsKeyPressed(DirKey[d]) /\ StepStarts(d) THEN now
                        ELSE last_step[d]]
    /\ ctl' = [PollState EXCEPT !.buttons = Store(ctl.buttons, NewButtons)]
    /\ applied' = ApplyOutcome
    /\ fresh' = {}
    /\ UNCHANGED <<engine, seq, running, xpc, xi, xr, xres, xlog, polling, ppc,
                   enabled, dev, notified, npc, keys, now, direct>>

\* The bindings whose keys the user operates
StepKeys == {"left_stick_up", "left_stick_down", "button_a"}

\* The user presses a key
KeyDown(k) ==
    /\ k \notin keys
    /\ keys' = keys \cup {k}
    /\ fresh' = fresh \cup {d \in Dirs : DirKey[d] = k}
    /\ UNCHANGED <<engine, seq, running, xpc, xi, xr, xres, xlog, ctl, polling, ppc,
                   pnew, enabled, dev, applied, notified, npc, now, last_step,
                   direct>>

\* The user releases a key
KeyUp(k) ==
    /\ k \in keys
    /\ keys' = keys \ {k}
    /\ fresh' = fresh \ {d \in Dirs : DirKey[d] = k}
    /\ UNCHANGED <<engine, seq, running, xpc, xi, xr, xres, xlog, ctl, polling, ppc,
                   pnew, enabled, dev, applied, notified, npc, now, last_step,
                   direct>>

\* time.time() advances by one tick
TimePasses ==
    /\ now < Epoch + MaxTicks
    /\ now' = now + 1
    /\ UNCHANGED <<engine, seq, running, xpc, xi, xr, xres, xlog, ctl, polling, ppc,
                   pnew, enabled, dev, applied, notified, npc, keys, last_step,
                   fresh, direct>>

\* The polling thread runs on a connected controller
StepInit ==
    /\ EngineInit
    /\ Constructed
    /\ seq = <<>>
    /\ enabled = TRUE
    /\ pool = {1}
    /\ hands = MaxCasts
    /\ idle = 0
    /\ cfg = DefaultConfig
    /\ args = [zero |-> FALSE, low |-> FALSE]
    /\ result = "none"

\* The user operates the keys while the polling thread runs, and another
\* thread presses button B through set_button.
StepNext ==
    \/ StartPolling
    \/ \E k \in StepKeys : KeyDown(k)
    \/ \E k \in StepKeys : KeyUp(k)
    \/ TimePasses
    \/ PollPass
    \/ CallSetButton("B", TRUE)

StepSpec == StepInit /\ [][StepNext]_vars

\* ------------------------------------------------------------- find_cards
\* The registered card templates, in the order of _card_templates
Templates ==
    <<[name |-> "spell", card_type |-> "SPELL", w |-> TemplateW, h |-> TemplateH],
      [name |-> "enchant", card_type |-> "ENCHANT", w |-> TemplateW, h |-> TemplateH]>>

\* The points of one template's correlation surface: the template, the point
\* and the correlation there (a level; the threshold is one of the levels)
Candidates ==
    [t : 1..Len(Templates), x : 0..MaxPx, y : 0..MaxPy, confidence : 1..MaxConf]

\* find_cards scans template after template, and np.where lists the points of
\* one template row by row
Before(a, b) ==
    \/ a.t < b.t
    \/ a.t = b.t /\ a.y < b.y
    \/ a.t = b.t /\ a.y = b.y /\ a.x < b.x

\* A find_cards that takes every point of the surface for a candidate.
AboveThresholdAny(c, confidence) == TRUE

\* find_cards: 'np.where(result >= confidence)'
AboveThreshold(c, confidence) == c.confidence >= confidence

Abs(v) == IF v < 0 THEN -v ELSE v

\* find_cards: 'abs(x - existing.x) < w * 0.5 and abs(y - existing.y) < h * 0.5'
Collides(x, y, w, h, existing) ==
    /\ 2 * Abs(x - existing.x) < w
    /\ 2 * Abs(y - existing.y) < h

\* find_cards: the CardMatch built from a candidate
CardOf(c) ==
    [x |-> c.x, y |-> c.y, width |-> Templates[c.t].w, height |-> Templates[c.t].h,
     confidence |-> c.confidence, card_type |-> Templates[c.t].card_type,
     name |-> Templates[c.t].name]

\* list.remove of the element at index k
RemoveAt(l, k) == [i \in 1..(Len(l) - 1) |-> IF i < k THEN l[i] ELSE l[i + 1]]

\* A duplicate check where the first detection found at a place stays.
AcceptFirstFound(all_cards, c) ==
    LET hits == {k \in 1..Len(all_cards) :
                    Collides(c.x, c.y, Templates[c.t].w, Templates[c.t].h, all_cards[k])}
    IN IF hits = {} THEN Append(all_cards, CardOf(c))
       ELSE all_cards

\* find_cards: the duplicate check of one candidate against all_cards; the
\* loop over all_cards ends at the first detection the candidate collides with
Accept(all_cards, c) ==
    LET hits == {k \in 1..Len(all_cards) :
                    Collides(c.x, c.y, Templates[c.t].w, Templates[c.t].h, all_cards[k])}
    IN IF hits = {} THEN Append(all_cards, CardOf(c))
       ELSE LET k == CHOOSE i \in hits : \A j \in hits : i <= j
            IN IF c.confidence > all_cards[k].confidence
               THEN Append(RemoveAt(all_cards, k), CardOf(c))
               ELSE all_cards

\* A find_cards that returns all_cards in the order of the scan.
SortByXNot(l) == l

\* find_cards: 'all_cards.sort(key=lambda c: c.x)', a stable sort
SortByX(l) ==
    LET pos(i) == 1 + Cardinality({j \in 1..Len(l) :
                                      \/ l[j].x < l[i].x
                                      \/ l[j].x = l[i].x /\ j < i})
    IN [k \in 1..Len(l) |-> l[CHOOSE i \in 1..Len(l) : pos(i) = k]]

\* find_cards is called with config.images.confidence, any of the levels: no
\* candidate is scanned yet (args), all_cards is empty (result)
FindInit ==
    /\ EngineInit
    /\ ComboIdle
    /\ pool = {1}
    /\ hands = MaxCasts
    /\ idle = 0
    /\ cfg \in {[enabled |-> DefaultConfig.enabled, timeout |-> DefaultConfig.timeout,
                 confidence |-> t] : t \in 1..MaxConf}
    /\ args = <<>>
    /\ result = <<"scanning", <<>>>>

\* find_cards: one pass of the loop over the candidates, for the next point
\* of the frame at or above the threshold
ScanCandidate ==
    /\ result[1] = "scanning"
    /\ Len(args) < MaxCand
    /\ \E c \in Candidates :
          /\ AboveThreshold(c, cfg.confidence)
          /\ IF Len(args) = 0 THEN TRUE ELSE Before(args[Len(args)], c)
          /\ args' = Append(args, c)
          /\ result' = <<"scanning", Accept(result[2], c)>>
    /\ UNCHANGED <<shared, pc, waiting, locals, iter, stopAt, stopCtx, pool, combo,
                   hands, idle, cfg>>

\* find_cards: the loops are over; the sort and the return
ReturnCards ==
    /\ result[1] = "scanning"
    /\ result' = <<"cards", SortByX(result[2])>>
    /\ UNCHANGED <<shared, pc, waiting, locals, iter, stopAt, stopCtx, pool, combo,
                   hands, idle, cfg, args>>

\* _find_all_cards: the detections of one type, in the order of the list
Partition(all_cards, card_type) ==
    SelectSeq(all_cards, LAMBDA c : c.card_type = card_type)

FindNext == ScanCandidate \/ ReturnCards

FindSpec == FindInit /\ [][FindNext]_vars

\* find_cards with a template whose match computation may raise: result also
\* holds the templates skipped so far
SkipInit ==
    /\ EngineInit
    /\ ComboIdle
    /\ pool = {1}
    /\ hands = MaxCasts
    /\ idle = 0
    /\ cfg \in {[enabled |-> DefaultConfig.enabled, timeout |-> DefaultConfig.timeout,
                 confidence |-> t] : t \in 1..MaxConf}
    /\ args = <<>>
    /\ result = <<"scanning", <<>>, {}>>

\* The loop over the templates has not gone past template t
NotPast(t) ==
    /\ \A f \in result[3] : f < t
    /\ IF Len(args) = 0 THEN TRUE ELSE args[Len(args)].t <= t

\* A template whose exception is raised in the middle of its candidates.
MatchFailsMidScan ==
    /\ result[1] = "scanning"
    /\ \E t \in 1..Len(Templates) :
          /\ NotPast(t)
          /\ result' = <<"scanning", result[2], result[3] \cup {t}>>
    /\ UNCHANGED <<shared, pc, waiting, locals, iter, stopAt, stopCtx, pool, combo,
                   hands, idle, cfg, args>>

\* find_cards: cv2.matchTemplate raises for the next template, before any of
\* its points is looked at; 'except Exception: continue'
MatchFails ==
    /\ result[1] = "scanning"
    /\ \E t \in 1..Len(Templates) :
          /\ NotPast(t)
          /\ IF Len(args) = 0 THEN TRUE ELSE args[Len(args)].t < t
          /\ result' = <<"scanning", result[2], result[3] \cup {t}>>
    /\ UNCHANGED <<shared, pc, waiting, locals, iter, stopAt, stopCtx, pool, combo,
                   hands, idle, cfg, args>>

\* find_cards: one pass of the loop over the candidates of a template whose
\* match computation did not raise
SkipScan ==
    /\ result[1] = "scanning"
    /\ Len(args) < MaxCand
    /\ \E c \in Candidates :
          /\ AboveThreshold(c, cfg.confidence)
          /\ NotPast(c.t)
          /\ c.t \notin result[3]
          /\ IF Len(args) = 0 THEN TRUE ELSE Before(args[Len(args)], c)
          /\ args' = Append(args, c)
          /\ result' = <<"scanning", Accept(result[2], c), result[3]>>
    /\ UNCHANGED <<shared, pc, waiting, locals, iter, stopAt, stopCtx, pool, combo,
                   hands, idle, cfg>>

\* find_cards: the loops are over; the sort and the return
SkipReturn ==
    /\ result[1] = "scanning"
    /\ result' = <<"cards", SortByX(result[2]), result[3]>>
    /\ UNCHANGED <<shared, pc, waiting, locals, iter, stopAt, stopCtx, pool, combo,
                   hands, idle, cfg, args>>

SkipNext == MatchFails \/ SkipScan \/ SkipReturn

SkipSpec == SkipInit /\ [][SkipNext]_vars


\* ============================================================= claims
HasType(cs, ty) == \E i \in 1..Len(cs) : cs[i].ty = ty
Leftmost(cs, ty) ==
    LET idx == {i \in 1..Len(cs) : cs[i].ty = ty}
    IN  cs[CHOOSE i \in idx : \A j \in idx : cs[i].x <= cs[j].x]
Last(l) == l[Len(l)]
IsClick(e, ty) == e.ev = "click" /\ e.arg[1].ty = ty

LegalEdges == {<<"STOPPED", "RUNNING">>, <<"RUNNING", "PAUSED">>,
               <<"PAUSED", "RUNNING">>, <<"RUNNING", "STOPPED">>,
               <<"PAUSED", "STOPPED">>}

\* C1: every change of BotEngine.state follows one of the edges
\* Stopped->Running, Running->Paused, Paused->Running, Running->Stopped,
\* Paused->Stopped, and Stopped->Running is only taken by a loop that starts.
C1_StateEdges ==
    [][state' # state =>
         /\ <<state, state'>> \in LegalEdges
         /\ state = "STOPPED" =>
                \E t \in Threads : pc[t] = "run_loop" /\ pc'[t] = "outer"]_vars

\* C2: in advanced mode, once the enchant card is clicked, a set stop flag
\* keeps the thread from re-sampling and from clicking the spell card.
C2_NoSpellClickAfterStop ==
    [][\A t \in Threads :
          (stop_event /\ stopAt[t] = "enchant"
              /\ pc[t] \in {"adv_rescan", "adv_click_spell"})
              => iter'[t] = iter[t]]_vars

\* C3: a loop that stop() found blocked in the pause-wait at the top of its
\* iteration samples nothing, runs no recovery and injects no click or key
\* before it leaves the iteration.
C3_WokenByStopDoesNothing ==
    \A t \in Threads : stopAt[t] = "blocked" =>
        \A i \in 1..Len(iter[t]) :
            iter[t][i].ev \notin {"sample", "refill", "click", "prompt_click",
                                  "key_confirm", "key_escape", "key_w", "key_s"}

\* C4: a stop() called while the engine is Running or Paused, its loop
\* alive, is eventually followed by the state Stopped.
C4_StopLeadsToStopped == (stopCtx = "active") ~> (state = "STOPPED")

\* C5: stop() leaves the state, the counters and the thread handle as they
\* are and raises nothing, and the first start(), whatever stop() calls came
\* before it, spawns the loop with the stop flag cleared and the pause flag set.
C5_StopIsNoOp ==
    [][/\ Stop => UNCHANGED <<state, cycle_count, successful_casts,
                              current_slot, thread, raised>>
       /\ ~raised'
       /\ (thread = 0 /\ thread' # 0) =>
              (pc'[thread'] = "run_loop" /\ ~stop_event' /\ pause_event')]_vars

C5_Witness ==
    /\ stopCtx = "first"
    /\ thread # 0
    /\ pc[1] = "outer"
    /\ state = "RUNNING"
    /\ ~stop_event

\* C6: a loop that starts sets the state to Running and the cycle counter,
\* the cast counter and the navigation-slot cursor to 0.
C6_StartResetsCounters ==
    [][\A t \in Threads :
          (pc[t] = "run_loop" /\ pc'[t] = "outer") =>
              /\ state' = "RUNNING"
              /\ cycle_count' = 0
              /\ successful_casts' = 0
              /\ current_slot' = 0]_vars

\* C7: a loop blocked at a pause-wait point is released by nothing but a
\* resume() or a stop().
C7_BlockedUntilResumeOrStop ==
    [][(\E t \in Threads : waiting[t] = "blocked" /\ waiting'[t] # "blocked")
          => (Resume \/ Stop)]_vars

\* C8 as stated: should_refill is true exactly when the resource is zero, or
\* low with an idle time of at least the timeout, whatever the configuration.
C8_RefillIffZeroOrLowIdle ==
    result # "none" =>
        result = Bool(args.zero \/ (args.low /\ idle >= cfg.timeout))

\* C8 amended: with refill enabled should_refill is true exactly when the
\* resource is zero, or low with an idle time of at least the timeout; with
\* refill disabled it is false.
C8_RefillWhenEnabled ==
    result # "none" =>
        result = Bool(cfg.enabled /\ (args.zero \/ (args.low /\ idle >= cfg.timeout)))

C8_Witness ==
    /\ result = "True"
    /\ args.zero
    /\ idle < cfg.timeout

\* C9: in simple mode the card clicked is the leftmost enchanted detection
\* of the sample when there is one, else the leftmost spell detection; an
\* enchant detection is never clicked.
C9_SimpleEnchantedFirst ==
    \A t \in Threads : tmode[t] = "SIMPLE" =>
        /\ pc[t] \in {"click", "confirm"} =>
              IF HasType(cards[t], "ENCHANTED_SPELL")
              THEN target[t] = Leftmost(cards[t], "ENCHANTED_SPELL")
              ELSE /\ HasType(cards[t], "SPELL")
                   /\ target[t] = Leftmost(cards[t], "SPELL")
        /\ pc[t] = "confirm" => Last(iter[t]) = Event("click", <<target[t]>>)
        /\ \A i \in 1..Len(iter[t]) : ~IsClick(iter[t][i], "ENCHANT")

C9_Witness ==
    \E t \in Threads :
        /\ tmode[t] = "SIMPLE"
        /\ pc[t] = "confirm"
        /\ cards[t] = <<[ty |-> "SPELL", x |-> 1], [ty |-> "ENCHANTED_SPELL", x |-> 2]>>
        /\ Last(iter[t]) = Event("click", <<[ty |-> "ENCHANTED_SPELL", x |-> 2]>>)

\* C10: in advanced mode with an enchant and a spell but no enchanted
\* detection the thread clicks the leftmost enchant, samples again, and then
\* clicks the leftmost spell of the second sample or, if that sample has no
\* spell, goes to the escape key press and clicks no spell.
C10_EnchantThenRescan ==
    \A t \in Threads : tmode[t] = "ADVANCED" =>
        /\ pc[t] = "adv_click_enchant" =>
              /\ ~HasType(cards[t], "ENCHANTED_SPELL")
              /\ HasType(cards[t], "SPELL")
              /\ HasType(cards[t], "ENCHANT")
              /\ target[t] = Leftmost(cards[t], "ENCHANT")
              /\ \A i \in 1..Len(iter[t]) : iter[t][i].ev # "click"
        /\ pc[t] = "adv_rescan" => IsClick(Last(iter[t]), "ENCHANT")
        /\ pc[t] = "adv_click_spell" =>
              /\ HasType(cards[t], "SPELL")
              /\ target[t] = Leftmost(cards[t], "SPELL")
        /\ pc[t] = "adv_escape" => ~HasType(cards[t], "SPELL")
        /\ \A i \in 1..Len(iter[t]) : IsClick(iter[t][i], "ENCHANT") =>
              LET n == Len(iter[t]) IN
              /\ n = i <=> pc[t] = "adv_rescan"
              /\ n > i => iter[t][i + 1].ev = "sample"
              /\ n = i + 1 =>
                    \/ pc[t] = "adv_click_spell"
                    \/ pc[t] \in {"adv_escape", "head"} /\ ~HasType(cards[t], "SPELL")
              /\ n > i + 1 =>
                    /\ n = i + 2
                    /\ pc[t] = "head"
                    /\ \/ /\ HasType(cards[t], "SPELL")
                          /\ iter[t][n] = Event("click", <<Leftmost(cards[t], "SPELL")>>)
                       \/ /\ ~HasType(cards[t], "SPELL")
                          /\ iter[t][n].ev = "key_escape"

C10_Witness ==
    \E t \in Threads :
        /\ tmode[t] = "ADVANCED"
        /\ pc[t] = "head"
        /\ Len(iter[t]) >= 3
        /\ IsClick(iter[t][Len(iter[t]) - 2], "ENCHANT")
        /\ IsClick(Last(iter[t]), "SPELL")
        /\ spell0[t].ty = "SPELL"
        /\ Last(iter[t]).arg[1].x # spell0[t].x

OnlySpells(cs) == cs # <<>> /\ \A i \in 1..Len(cs) : cs[i].ty = "SPELL"
Count(l, e) == Cardinality({i \in 1..Len(l) : l[i].ev = e})

\* C11: in advanced mode a sample of spell detections only sends the thread
\* to the click of its first spell, the click is the first click of the
\* iteration and follows its only sample, and the confirm key press comes
\* next (the key is injected unless stop was requested).
C11_SpellOnlyCastDirectly ==
    [][\A t \in Threads : tmode[t] = "ADVANCED" =>
          /\ (pc[t] = "sample" /\ pc'[t] # "sample" /\ OnlySpells(cards'[t])) =>
                /\ pc'[t] = "click"
                /\ target'[t] = cards'[t][1]
          /\ (pc[t] = "click" /\ OnlySpells(cards[t])) =>
                /\ Count(iter[t], "click") = 0
                /\ Count(iter[t], "sample") = 1
                /\ pc'[t] \in {"click", "confirm"}
                /\ pc'[t] = "confirm" =>
                      iter'[t] = Append(iter[t], Event("click", <<cards[t][1]>>))
          /\ (pc[t] = "confirm" /\ OnlySpells(cards[t])) =>
                /\ Count(iter[t], "click") = 1
                /\ Count(iter[t], "sample") = 1
                /\ Last(iter[t]) = Event("click", <<cards[t][1]>>)
                /\ pc'[t] \in {"confirm", "wait_detect"}
                /\ pc'[t] = "wait_detect" =>
                      iter'[t] = IF stop_event THEN iter[t]
                                 ELSE Append(iter[t], Event("key_confirm", <<>>))]_vars

C11_Witness ==
    \E t \in Threads :
        /\ tmode[t] = "ADVANCED"
        /\ pc[t] = "wait_detect"
        /\ iter[t] = <<Event("sample", <<>>),
                       Event("click", <<[ty |-> "SPELL", x |-> 1]>>),
                       Event("key_confirm", <<>>)>>

RECURSIVE Repetitions(_, _)
Repetitions(sq, i) ==
    IF i > Len(sq) THEN <<>>
    ELSE [r \in 1..sq[i].repeat |-> <<i, r>>] \o Repetitions(sq, i + 1)

IsEffect(e) == e.ev = "effect"
Effects(c) ==
    LET fx == SelectSeq(xlog[c], IsEffect)
    IN  [k \in 1..Len(fx) |-> <<fx[k].i, fx[k].r>>]

IsPrefix(a, b) == Len(a) <= Len(b) /\ \A k \in 1..Len(a) : a[k] = b[k]

SeqInOrder(c) ==
    /\ IsPrefix(Effects(c), Repetitions(seq, 1))
    /\ xres[c] = "True" => Effects(c) = Repetitions(seq, 1)
    /\ \A k \in 1..Len(xlog[c]) :
          /\ xlog[c][k].ev = "effect" =>
                k > 1 /\ xlog[c][k - 1] = XEvent("check", xlog[c][k].i, xlog[c][k].r)
          /\ xlog[c][k].ev = "abort" => k = Len(xlog[c])
    /\ (xpc[c] = "done" /\ xres[c] = "False") => Last(xlog[c]).ev = "abort"

\* C13: the effects of one execute() are the repetitions of the steps in
\* list order, every step repeat times in a row, and all of them when it
\* returns True; every effect directly follows a stop check of its own
\* repetition, nothing follows a stop check that aborted, and a repetition
\* whose check finds stop requested does not start.
C13_StepsInOrder ==
    /\ []SeqInOrder("loop")
    /\ [][(stop_event /\ xpc["loop"] = "rep_check") => xpc'["loop"] # "engage"]_vars

C13_Witness ==
    /\ xpc["loop"] = "done"
    /\ xres["loop"] = "True"
    /\ Len(seq) = 2
    /\ seq[1].repeat = 2
    /\ seq[1].action = "button"
    /\ Effects("loop") = <<<<1, 1>>, <<1, 2>>, <<2, 1>>>>

\* C14: when an execute() that was aborted by its stop check returns, the
\* controller state is neutral: no button, both triggers 0, both sticks (0,0).
C14_AbortLeavesNeutral ==
    [][(/\ xpc["loop"] = "reset_update"
        /\ xres["loop"] = "False"
        /\ xpc'["loop"] = "done") => ctl' = Neutral]_vars

\* The positions of an execute() that has passed the guard and not returned
PastGuard == {"set_running", "step_check", "rep_check", "engage", "engage_update",
              "release", "release_update", "complete", "finally", "reset",
              "reset_update"}

\* C15: at most one execute() is past the guard at any time, whatever the
\* interleaving of the main loop's call with the test thread's.
C15_AtMostOneSequence ==
    ~(xpc["loop"] \in PastGuard /\ xpc["test"] \in PastGuard)

\* The positions of an execute() that is inside the loop over the steps
InSteps == {"step_check", "rep_check", "engage", "engage_update", "release",
            "release_update"}

\* The last step before step i whose kind is one of kinds, or 0
LastOf(kinds, i) ==
    LET js == {j \in 1..(i - 1) : j <= Len(seq) /\ seq[j].action \in kinds}
    IN IF js = {} THEN 0 ELSE CHOOSE j \in js : \A k \in js : k <= j

\* The step at which the main loop's execute() is, if it is of another kind
\* than kinds or the sequence is at its end
OtherKind(kinds) ==
    /\ xpc["loop"] \in InSteps
    /\ xi["loop"] <= Len(seq) => seq[xi["loop"]].action \notin kinds

\* C16: while the steps after a stick_hold (a trigger_hold) are of another
\* kind than stick_hold and stick_release (trigger_hold and trigger_release),
\* the left stick (the trigger) is at the deflection the hold step gave it.
C16_HoldStaysEngaged ==
    /\ OtherKind({"stick_hold", "stick_release"}) =>
          LET j == LastOf({"stick_hold", "stick_release"}, xi["loop"])
          IN (j > 0 /\ seq[j].action = "stick_hold") =>
                <<ctl.left_stick_x, ctl.left_stick_y>> = Deflection(seq[j])
    /\ OtherKind({"trigger_hold", "trigger_release"}) =>
          LET j == LastOf({"trigger_hold", "trigger_release"}, xi["loop"])
          IN (j > 0 /\ seq[j].action = "trigger_hold") =>
                IF seq[j].value = "left" THEN ctl.left_trigger = TriggerMax
                ELSE ctl.right_trigger = TriggerMax

\* The polling thread has written state fields of its pass and has not
\* finished its update()
PollWriting == ppc \in {"write_triggers", "update"}

\* The sequencer has written the state in set_button, set_stick, set_trigger
\* or reset and has not finished the update() of that call
ApiWriting(c) == xpc[c] \in {"engage_update", "release_update", "reset_update"}

\* C17: the polling thread and a direct call of the sequencer are never both
\* between their write of the controller state and the end of their update().
C17_WritersSerialized ==
    ~(PollWriting /\ ApiWriting("loop"))

\* C18: both triggers are within 0..255 and the four stick coordinates within
\* -32768..32767 in every state, whatever set_trigger and set_stick are given
\* and whatever the polling thread and the sequencer write.
C18_ValuesInRange ==
    /\ ctl.left_trigger \in 0..TriggerMax
    /\ ctl.right_trigger \in 0..TriggerMax
    /\ \A v \in {ctl.left_stick_x, ctl.left_stick_y, ctl.right_stick_x,
                 ctl.right_stick_y} : StickMin <= v /\ v <= StickMax

\* set_stick was given a coordinate below the range and set_trigger a value
\* above it, while the polling thread runs
C18_Witness ==
    /\ ctl.right_stick_x = StickMin
    /\ ctl.left_trigger = TriggerMax
    /\ polling

\* Two detections lie within half a template width and half a template height
\* of each other
Overlap(a, b) == Collides(a.x, a.y, a.width, a.height, b)

\* C19: no two detections returned by one find_cards call overlap.
C19_NoOverlap ==
    result[1] = "cards" =>
        \A i, j \in 1..Len(result[2]) :
            i # j => ~Overlap(result[2][i], result[2][j])

\* Candidates i and j of the scanned frame are of the same template and within
\* half the template width and height of each other, j not the more confident
ClosePair(i, j) ==
    /\ i # j
    /\ args[i].t = args[j].t
    /\ Overlap(CardOf(args[i]), CardOf(args[j]))
    /\ args[i].confidence >= args[j].confidence

\* Exactly one of the candidates i and j is returned, and not the less
\* confident one
OneSurvives(i, j) ==
    LET returned == {result[2][k] : k \in 1..Len(result[2])}
    IN /\ (CardOf(args[i]) \in returned) # (CardOf(args[j]) \in returned)
       /\ args[i].confidence > args[j].confidence => CardOf(args[i]) \in returned

\* No other candidate of the frame collides with candidate i or j
Alone(i, j) ==
    \A k \in 1..Len(args) \ {i, j} :
        /\ ~Overlap(CardOf(args[k]), CardOf(args[i]))
        /\ ~Overlap(CardOf(args[k]), CardOf(args[j]))

\* C20 as stated: of any two candidates of the same template within half the
\* template width and height of each other, find_cards returns exactly one,
\* and never the one with the lower confidence.
C20_OneOfAnyPair ==
    result[1] = "cards" =>
        \A i, j \in 1..Len(args) : ClosePair(i, j) => OneSurvives(i, j)

\* C20, amended: the same for two candidates that no other candidate of the
\* frame collides with, whichever of the two is scanned first.
C20_HigherConfidenceSurvives ==
    result[1] = "cards" =>
        \A i, j \in 1..Len(args) :
            (ClosePair(i, j) /\ Alone(i, j)) => OneSurvives(i, j)

\* The later scanned of two close candidates is the more confident and has
\* replaced the earlier one, beside a third candidate far from both
C20_Witness ==
    /\ result[1] = "cards"
    /\ Len(args) = 3
    /\ ClosePair(2, 1)
    /\ Alone(2, 1)
    /\ args[2].confidence > args[1].confidence
    /\ Len(result[2]) = 2
    /\ \E k \in 1..2 : result[2][k] = CardOf(args[2])

\* C21: every detection find_cards returns has a confidence at or above the
\* threshold it was called with.
C21_ConfidenceAtLeastThreshold ==
    result[1] = "cards" =>
        \A k \in 1..Len(result[2]) : result[2][k].confidence >= cfg.confidence

\* find_cards was called with the highest level for a threshold and has
\* returned two detections
C21_Witness ==
    /\ result[1] = "cards"
    /\ cfg.confidence = MaxConf
    /\ Len(result[2]) = 2

\* C22: the list find_cards returns is in non-decreasing order of x, whatever
\* the templates of its detections, and the first detection of every type
\* partition is a leftmost detection of that type.
C22_SortedByX ==
    result[1] = "cards" =>
        /\ \A i, j \in 1..Len(result[2]) : i < j => result[2][i].x <= result[2][j].x
        /\ \A ty \in {Templates[t].card_type : t \in 1..Len(Templates)} :
              LET part == Partition(result[2], ty)
              IN \A k \in 1..Len(part) : part[1].x <= part[k].x

\* The detection scanned last, of the second template, is returned first: it
\* is left of a detection of the first template
C22_Witness ==
    /\ result[1] = "cards"
    /\ Len(args) = 2
    /\ Len(result[2]) = 2
    /\ result[2][1] = CardOf(args[2])
    /\ result[2][1].x < result[2][2].x
    /\ args[1].t < args[2].t

\* The loop of thread t has left its try block through an exception
Failed(t) == Len(iter[t]) > 0 /\ Last(iter[t]).ev = "fail"

\* C23: a loop thread whose body raised an exception does nothing but end,
\* and when it ends the state is STOPPED; no exception reaches a caller.
C23_FailureStopsEngine ==
    [][\A t \in Threads :
          (Failed(t) /\ pc[t] = "exit") =>
              /\ pc'[t] \in {"exit", "done"}
              /\ pc'[t] = "done" => state' = "STOPPED"
              /\ iter'[t] = iter[t]
              /\ raised' = raised]_vars

\* The loop failed while the engine was paused, and has ended
C23_Witness ==
    \E t \in Threads :
        /\ Failed(t)
        /\ pc[t] = "done"
        /\ state = "STOPPED"
        /\ ~pause_event

\* C24: a connect that fails returns False, a call whose _apply_state failed
\* returns False, and neither is tried again within the call.
C24_DeviceFailureReported ==
    [][/\ (Connect /\ dev = "failing") => (result' = "False" /\ enabled' = enabled)
       /\ applied' = "failed" => result' = "False"]_vars

\* C25: whenever no thread is inside _set_state, the state the callback was
\* last called with is the current state.
C25_NotifiedIsCurrent ==
    (notified # "none" /\ \A c \in Setters : npc[c] = "none") => notified = state

\* C26: the engine state is Stopped, Running or Paused: no call of _set_state
\* passes BotState.WAITING.
C26_WaitingUnreachable == state \in BotStates \ {"WAITING"}

\* A running loop has been paused: all three states have been taken.
C26_Witness ==
    /\ state = "PAUSED"
    /\ \E t \in Threads : pc[t] \in PauseWaits /\ waiting[t] = "blocked"

\* The stick values of full deflection and of rest
AxisValues == {StickMin, 0, StickMax}

\* C27: a poll pass leaves every axis of the left stick at one of -32768, 0 and
\* 32767, and a full deflection is that of one direction whose key is held:
\* with both keys of an axis held the pass never emits a mixture of the two.
C27_OneDirectionPerAxis ==
    [][PollPass =>
        /\ ctl'.left_stick_x \in AxisValues
        /\ ctl'.left_stick_y \in AxisValues
        /\ ctl'.left_stick_y = StickMax => IsKeyPressed(DirKey["up"])
        /\ ctl'.left_stick_y = StickMin => IsKeyPressed(DirKey["down"])
        /\ ctl'.left_stick_x = StickMax => IsKeyPressed(DirKey["right"])
        /\ ctl'.left_stick_x = StickMin => IsKeyPressed(DirKey["left"])]_vars

\* Up and down are held and a pass has just started a step of both.
C27_Witness ==
    /\ IsKeyPressed(DirKey["up"])
    /\ IsKeyPressed(DirKey["down"])
    /\ fresh = {}
    /\ last_step["up"] = now
    /\ last_step["down"] = now
    /\ ctl.left_stick_y = StickMin

\* The value of full deflection of a direction, and the key of the direction
\* opposite to it
Full(d) == IF d \in {"up", "right"} THEN StickMax ELSE StickMin
Opposite(d) ==
    CASE d = "up" -> "down" [] d = "down" -> "up"
      [] d = "left" -> "right" [] d = "right" -> "left"
AxisOf(c, d) == IF d \in {"up", "down"} THEN c.left_stick_y ELSE c.left_stick_x

\* C28: at every poll pass and for every direction: a key that is not held
\* emits neutral; a held key (its opposite not held) emits full deflection
\* exactly during the step duration after the start of its step, a step
\* starts when a full interval has passed since the last start, and the first
\* pass after the key went down emits full deflection.
C28_RapidSteps ==
    [][PollPass => \A d \in Dirs :
        /\ ~IsKeyPressed(DirKey[d]) => AxisOf(ctl', d) # Full(d)
        /\ IsKeyPressed(DirKey[d]) /\ StepStarts(d) => last_step'[d] = now
        /\ IsKeyPressed(DirKey[d]) /\ ~IsKeyPressed(DirKey[Opposite(d)]) =>
              (AxisOf(ctl', d) = Full(d) <=> now - last_step'[d] < StepDuration)
        /\ IsKeyPressed(DirKey[d]) /\ ~IsKeyPressed(DirKey[Opposite(d)]) /\ d \in fresh =>
              AxisOf(ctl', d) = Full(d)]_vars

\* C29: after a poll pass the buttons are exactly those whose bound key is
\* pressed, whatever they were before.
C29_ButtonsFollowKeys ==
    [][PollPass => ctl'.buttons = {m[2] : m \in {b \in BtnMap : b[1] \in keys}}]_vars

\* set_button has set B and nothing has released it; a pass has run with the
\* key of A held and B is gone.
C29_Witness ==
    /\ "B" \in direct
    /\ IsKeyPressed("button_a")
    /\ pnew.buttons = {"A"}
    /\ ctl.buttons = {"A"}

\* C30: the cast counter changes only by one, together with the last-action
\* time, at the end of a cast, and every cast that is counted has injected both
\* the click on the card and the confirm key.
C30_CountsInjectedCasts ==
    [][/\ successful_casts' # successful_casts =>
            /\ successful_casts' = successful_casts + 1
            /\ idle' = 0
            /\ \E t \in Threads : Confirm(t)
       /\ \A t \in Threads : Confirm(t) =>
            (Has(t, "click") /\ Has(t, "key_confirm"))']_vars

\* The step of thread t injects a W/S pulse pair
Pulsed(t) == MovementPulse(t) /\ pc'[t] = "movement"

\* C31: movement is entered only from a post-cast wait that ran its full
\* interval; a pulse pair is injected only with movement enabled, no stop
\* requested, fewer than ws_repeats pairs injected so far, and right after a
\* sample of the step itself.
C31_MovementPulses ==
    [][\A t \in Threads :
          /\ (pc'[t] = "movement" /\ pc[t] \notin {"movement", "mv_paused"}) =>
                (pc[t] = "wait_detect" /\ count[t] >= WaitTicks)
          /\ Pulsed(t) =>
                /\ movement_enabled
                /\ ~stop_event
                /\ count[t] < WsRepeats
                /\ iter'[t][Len(iter'[t]) - 2].ev = "sample"]_vars

\* The step records that thread t has detected the prompt
Detects(t) ==
    /\ Len(iter'[t]) > Len(iter[t])
    /\ \E i \in Len(iter[t]) + 1..Len(iter'[t]) :
          iter'[t][i].ev \in {"prompt", "prompt_click"}

\* The iteration of thread t has sampled the cards or cast one
Acted(t) == Has(t, "sample") \/ Has(t, "click") \/ Has(t, "key_confirm")

\* _handle_still_there has left the controller as the claim says: untouched
\* when it was not connected, else disconnected and connected again
Handled ==
    IF enabled
    THEN enabled' = (dev = "ok")
    ELSE UNCHANGED <<enabled, polling, ctl, applied>>

\* C32 as stated: whenever the prompt is detected, the iteration has sampled no
\* card and cast nothing, and the controller is handled as described.
C32_PromptIterationIdle ==
    [][\A t \in Threads : Detects(t) => (~Acted(t)' /\ Handled)]_vars

\* C32, amended: when the check at the top of an iteration detects the prompt,
\* the iteration samples no card and casts nothing and starts over, and the
\* controller is handled as described.
C32_PromptRestartsIteration ==
    [][\A t \in Threads : (Detects(t) /\ pc[t] = "still_there") =>
          (~Acted(t)' /\ pc'[t] = "head" /\ Handled)]_vars

\* The check at the top of an iteration has detected the prompt with the
\* controller disconnected, and the controller is still disconnected
C32_Witness ==
    /\ ~enabled
    /\ dev = "ok"
    /\ \E t \in Threads :
          /\ pc[t] = "head"
          /\ Len(iter[t]) > 0
          /\ Last(iter[t]).ev = "prompt_click"

\* The step is of a kind _execute_step has no branch for, or a button step
\* whose button is not in BUTTON_MAP
IsOdd(step) ==
    \/ step.action \notin {"button", "wait", "stick_forward", "stick_back", "stick_left",
                            "stick_right", "stick_hold", "stick_release",
                            "trigger_hold", "trigger_release"}
    \/ step.action = "button" /\ step.value \notin ButtonMap

\* C33: while execute() is at an unknown step nothing writes ControllerState,
\* and the sequence goes on: every repetition of every step is run in order,
\* only a stop request ends it early, and else execute() returns True.
C33_UnknownStepsAreNoOps ==
    [][/\ (xi["loop"] \in 1..Len(seq) /\ xpc["loop"] \in {"engage", "engage_update",
                                                           "release", "release_update"}
            /\ IsOdd(seq[xi["loop"]])) => ctl' = ctl
       /\ IsPrefix(Effects("loop"), Repetitions(seq, 1))'
       /\ (xpc'["loop"] = "done" /\ ~stop_event') =>
             (xres'["loop"] = "True" /\ Effects("loop")' = Repetitions(seq, 1))]_vars

\* An unknown kind, then an unknown button, and execute() has returned True
C33_Witness ==
    /\ xpc["loop"] = "done"
    /\ xres["loop"] = "True"
    /\ Len(seq) = 2
    /\ seq[1].action = "jump"
    /\ seq[2].action = "button"
    /\ Effects("loop") = Repetitions(seq, 1)

\* What find_cards makes of the candidates cands, scanned in order
RECURSIVE Detections(_)
Detections(cands) ==
    IF Len(cands) = 0 THEN <<>>
    ELSE Accept(Detections(SubSeq(cands, 1, Len(cands) - 1)), cands[Len(cands)])

\* C34: when the match computation of a template raises, find_cards returns
\* what it makes of the candidates of the other templates alone.
C34_FailingTemplateSkipped ==
    result[1] = "cards" =>
        result[2] = SortByX(Detections(SelectSeq(args, LAMBDA c : c.t \notin result[3])))

\* The first template has raised and a detection of the second is returned
C34_Witness ==
    /\ result[1] = "cards"
    /\ result[3] = {1}
    /\ Len(result[2]) >= 1
    /\ \A k \in 1..Len(result[2]) : result[2][k].name = Templates[2].name

\* C35: at most one thread executes _run_loop at any time.
C35_OneLoopThread ==
    Cardinality({t \in Threads : Alive(t)}) <= 1

\* C36: whenever the polling flag is set a polling loop is running.
C36_PollingFlagMeansLoop ==
    polling => ppc # "off"

\* C37: when the prompt is detected with the controller connected and polling,
\* and the reconnect succeeds, the controller is connected and polling again
\* once the prompt is handled.
C37_PromptRestoresPolling ==
    [][\A t \in Threads : (Detects(t) /\ enabled /\ polling /\ dev = "ok") =>
          (enabled' /\ polling')]_vars

\* C38: an execute() that finds a sequence running returns False at once:
\* the step changes neither ControllerState nor the running flag nor the idle
\* timer, and the call is over.
C38_RejectedExecuteHasNoEffect ==
    [][\A c \in Callers :
          (xpc[c] = "guard" /\ xpc'[c] # "guard" /\ running) =>
             /\ xpc'[c] = "done"
             /\ xres'[c] = "False"
             /\ ctl' = ctl
             /\ running'
             /\ idle' = idle]_vars

\* The test thread's execute() was rejected while the main loop's sequence
\* holds the stick: the flag is still set and the stick still held
C38_Witness ==
    /\ xpc["test"] = "done"
    /\ xres["test"] = "False"
    /\ xlog["test"] = <<>>
    /\ running
    /\ xpc["loop"] = "engage_update"
    /\ ctl # Neutral

\* The sequence of caller c was ended by a stop request or by an error
Broken(c) == \E k \in 1..Len(xlog[c]) : xlog[c][k].ev \in {"abort", "error"}

\* C39: execute() resets the idle timer only in the step that follows the
\* last repetition of the whole sequence; a call ended by a stop request or by
\* an error returns False and never takes that step; and whenever a started
\* execute() returns the running flag is false.
C39_TimerResetOnlyWhenComplete ==
    [][/\ idle' # idle =>
             /\ xpc["loop"] = "complete"
             /\ Effects("loop") = Repetitions(seq, 1)
             /\ ~Broken("loop")
       /\ Broken("loop")' => (xpc'["loop"] # "complete" /\ xres'["loop"] = "False")
       /\ (xpc'["loop"] = "done" /\ xpc["loop"] # "done") => ~running']_vars

\* The second step of a sequence has raised after the first was executed:
\* execute() has returned False, the idle timer is where it was and the
\* running flag is false
C39_Witness ==
    /\ xpc["loop"] = "done"
    /\ xres["loop"] = "False"
    /\ Last(xlog["loop"]).ev = "error"
    /\ xi["loop"] = 2
    /\ idle = MaxIdle
    /\ ~running

\* The places of the enchant step of the advanced mode
EnchantSteps == {"adv_click_enchant", "adv_rescan", "adv_click_spell", "adv_escape"}

\* C40: every step a loop thread takes inside the enchant step leaves the
\* cast counter and the last-action time alone and leads to the next place of
\* the enchant step or back to the head of the loop, never to the confirm,
\* the post-action wait or the movement; the iteration has confirmed nothing.
C40_EnchantIsNoCast ==
    [][\A t \in Threads :
          (pc[t] \in EnchantSteps /\ pc'[t] # pc[t]) =>
             /\ pc'[t] \in EnchantSteps \cup {"head"}
             /\ successful_casts' = successful_casts
             /\ idle' = idle
             /\ ~Has(t, "key_confirm")']_vars

\* An iteration has clicked the enchant card, lost the spell card, cancelled
\* with escape and is back at the head of the loop with no cast counted
C40_Witness ==
    /\ successful_casts = 0
    /\ \E t \in Threads :
          /\ pc[t] = "head"
          /\ Has(t, "click")
          /\ Has(t, "key_escape")

====
